---- MODULE Spec2Model ----
(***************************************************************************)
(* Vitamin-D risk estimator: the quantile-to-distribution inference        *)
(* pipeline (QuantileCalibration, CdfBuilder, ThresholdCalculator,         *)
(* CounselingLogic) as a state machine.                                    *)
(*                                                                         *)
(* Numbers.  A JavaScript number is modelled as a record [n, d]:           *)
(*   d > 0  : the finite value n/d, in lowest terms (exact arithmetic);    *)
(*   d = 0  : a non-finite value: n = 0 is NaN, n = 1 is +Infinity and     *)
(*            n = -1 is -Infinity.                                         *)
(* Two finite numbers are equal exactly when their records are equal.      *)
(***************************************************************************)
EXTENDS Integers, Sequences, FiniteSets, TLC

VARIABLES calib, counsel, cdfv, hook, thr, enc, runner

vars == <<calib, counsel, cdfv, hook, thr, enc, runner>>

(***************************************************************************)
(* Arithmetic on numbers                                                   *)
(***************************************************************************)
Abs(k) == IF k < 0 THEN -k ELSE k

RECURSIVE Gcd(_, _)
Gcd(a, b) == IF b = 0 THEN a ELSE Gcd(b, a % b)

NaN == [n |-> 0, d |-> 0]
PosInf == [n |-> 1, d |-> 0]
NegInf == [n |-> -1, d |-> 0]

\* n/d in lowest terms with a positive denominator (d # 0)
R(n, d) ==
    LET g == Gcd(Abs(n), Abs(d))
        s == IF d < 0 THEN -1 ELSE 1
    IN  [n |-> (s * n) \div g, d |-> (s * d) \div g]

I(k) == [n |-> k, d |-> 1]

IsFinite(a) == a.d > 0
IsNaN(a) == a.d = 0 /\ a.n = 0
Sign(a) == IF a.n > 0 THEN 1 ELSE IF a.n < 0 THEN -1 ELSE 0
InfOf(s) == IF s > 0 THEN PosInf ELSE IF s < 0 THEN NegInf ELSE NaN

Neg(a) == [n |-> -a.n, d |-> a.d]

Add(a, b) ==
    IF IsNaN(a) \/ IsNaN(b) THEN NaN
    ELSE IF IsFinite(a) /\ IsFinite(b)
         THEN LET g == Gcd(a.d, b.d)
              IN  R(a.n * (b.d \div g) + b.n * (a.d \div g), (a.d \div g) * b.d)
    ELSE IF IsFinite(a) THEN b
    ELSE IF IsFinite(b) THEN a
    ELSE IF a.n = b.n THEN a ELSE NaN

Sub(a, b) == Add(a, Neg(b))

Mul(a, b) ==
    IF IsNaN(a) \/ IsNaN(b) THEN NaN
    ELSE IF IsFinite(a) /\ IsFinite(b)
         THEN LET g1 == Gcd(Abs(a.n), b.d)
                  g2 == Gcd(Abs(b.n), a.d)
              IN  R((a.n \div g1) * (b.n \div g2), (a.d \div g2) * (b.d \div g1))
    ELSE InfOf(Sign(a) * Sign(b))

Div(a, b) ==
    IF IsNaN(a) \/ IsNaN(b) THEN NaN
    ELSE IF IsFinite(a) /\ IsFinite(b)
         THEN IF b.n # 0
              THEN Mul(a, [n |-> (IF b.n < 0 THEN -b.d ELSE b.d), d |-> Abs(b.n)])
              ELSE InfOf(Sign(a))
    ELSE IF IsFinite(a) THEN I(0)
    ELSE IF IsFinite(b) THEN InfOf(Sign(a) * (IF b.n < 0 THEN -1 ELSE 1))
    ELSE NaN

\* a < b as JavaScript compares: false as soon as one side is NaN
Lt(a, b) ==
    IF IsNaN(a) \/ IsNaN(b) THEN FALSE
    ELSE IF IsFinite(a) /\ IsFinite(b)
         THEN LET g == Gcd(a.d, b.d)
              IN  a.n * (b.d \div g) < b.n * (a.d \div g)
    ELSE IF IsFinite(a) THEN b.n > 0
    ELSE IF IsFinite(b) THEN a.n < 0
    ELSE a.n < b.n

Gt(a, b) == Lt(b, a)
Leq(a, b) == ~IsNaN(a) /\ ~IsNaN(b) /\ ~Lt(b, a)
Geq(a, b) == Leq(b, a)

\* Math.max / Math.min: NaN as soon as one argument is NaN
MathMax(a, b) == IF IsNaN(a) \/ IsNaN(b) THEN NaN ELSE IF Lt(a, b) THEN b ELSE a
MathMin(a, b) == IF IsNaN(a) \/ IsNaN(b) THEN NaN ELSE IF Lt(b, a) THEN b ELSE a

\* floor of a finite number, as an integer
FloorInt(a) == a.n \div a.d

\* Math.round of a finite number (ties go up), as an integer
RoundInt(a) == (a.n \div a.d) + (IF 2 * (a.n % a.d) >= a.d THEN 1 ELSE 0)

(***************************************************************************)
(* Quantile predictions: sequences <<q05, q25, q50, q75, q95>> of numbers  *)
(***************************************************************************)
Q05(q) == q[1]
Q25(q) == q[2]
Q50(q) == q[3]
Q75(q) == q[4]
Q95(q) == q[5]

(***************************************************************************)
(* QuantileCalibration.ts                                                  *)
(***************************************************************************)
COVERAGE_TOLERANCE == R(5, 1000)
MAX_TAIL_SCALE == R(135, 100)
MIDDLE_SCALE_FRACTION == R(1, 2)
CONFORMAL_MIDDLE_SHARE == R(35, 100)
MIN_COVERAGE_DIVISOR == R(1, 100)

\* the loop of enforceMonotonicQuantiles, from index i on (1-based)
RECURSIVE monotonicLoop(_, _)
monotonicLoop(values, i) ==
    IF i > Len(values) THEN values
    ELSE monotonicLoop(IF Lt(values[i], values[i - 1])
                       THEN [values EXCEPT ![i] = values[i - 1]]
                       ELSE values,
                       i + 1)

\* a repair that compares each value with its original neighbour only
enforceAgainstOriginal(quantiles) ==
    [i \in 1..Len(quantiles) |->
        IF i > 1 /\ Lt(quantiles[i], quantiles[i - 1])
        THEN quantiles[i - 1] ELSE quantiles[i]]

enforceMonotonicQuantiles(quantiles) == monotonicLoop(quantiles, 2)

\* a rescaling that shrinks the tails instead of stretching them
scaleInwards(quantiles, tailScale) ==
    LET median == Q50(quantiles)
        middleScale == Add(I(1), Mul(Sub(tailScale, I(1)), MIDDLE_SCALE_FRACTION))
    IN  enforceMonotonicQuantiles(<<
            Add(median, Mul(Sub(median, Q05(quantiles)), tailScale)),
            Sub(median, Mul(Sub(median, Q25(quantiles)), middleScale)),
            median,
            Add(median, Mul(Sub(Q75(quantiles), median), middleScale)),
            Add(median, Mul(Sub(Q95(quantiles), median), tailScale)) >>)

scaleIntervalAroundMedian(quantiles, tailScale) ==
    LET median == Q50(quantiles)
        middleScale == Add(I(1), Mul(Sub(tailScale, I(1)), MIDDLE_SCALE_FRACTION))
    IN  enforceMonotonicQuantiles(<<
            Sub(median, Mul(Sub(median, Q05(quantiles)), tailScale)),
            Sub(median, Mul(Sub(median, Q25(quantiles)), middleScale)),
            median,
            Add(median, Mul(Sub(Q75(quantiles), median), middleScale)),
            Add(median, Mul(Sub(Q95(quantiles), median), tailScale)) >>)

(* Model metadata (ModelMeta | null).  An optional member is a record with *)
(* a has flag; its other fields are read only when has is TRUE.            *)
NoConformal == [has |-> FALSE, lower |-> I(0), upper |-> I(0)]
NoCoverage == [has |-> FALSE, coverage |-> I(0), target |-> I(0)]
NullMeta == [isNull |-> TRUE, conformal |-> NoConformal, coverage |-> NoCoverage]

\* the test of QuantileCalibration.ts lines 63-69
conformalUsable(conformal) ==
    /\ conformal.has
    /\ IsFinite(conformal.lower)
    /\ IsFinite(conformal.upper)
    /\ Geq(conformal.lower, I(0))
    /\ Geq(conformal.upper, I(0))

\* a tail factor without the upper cap
tailScaleUncapped(pi90) ==
    MathMax(I(1),
            Add(I(1), Div(Sub(pi90.target, pi90.coverage),
                          MathMax(pi90.coverage, MIN_COVERAGE_DIVISOR))))

\* the tail factor of QuantileCalibration.ts lines 89-92
tailScaleOf(pi90) ==
    MathMin(MAX_TAIL_SCALE,
            MathMax(I(1),
                    Add(I(1), Div(Sub(pi90.target, pi90.coverage),
                                  MathMax(pi90.coverage, MIN_COVERAGE_DIVISOR)))))

\* a widening that moves q25 and q75 by the whole adjustment
conformalWidenFullShare(monotonic, conformal) ==
    enforceMonotonicQuantiles(<<
        Sub(Q05(monotonic), conformal.lower),
        Sub(Q25(monotonic), conformal.lower),
        Q50(monotonic),
        Add(Q75(monotonic), conformal.upper),
        Add(Q95(monotonic), conformal.upper) >>)

\* a widening that moves q25 towards the median instead of away from it
conformalWidenInwards(monotonic, conformal) ==
    enforceMonotonicQuantiles(<<
        Sub(Q05(monotonic), conformal.lower),
        Add(Q25(monotonic), Mul(conformal.lower, CONFORMAL_MIDDLE_SHARE)),
        Q50(monotonic),
        Add(Q75(monotonic), Mul(conformal.upper, CONFORMAL_MIDDLE_SHARE)),
        Add(Q95(monotonic), conformal.upper) >>)

\* the conformal widening of QuantileCalibration.ts lines 70-76
conformalWiden(monotonic, conformal) ==
    enforceMonotonicQuantiles(<<
        Sub(Q05(monotonic), conformal.lower),
        Sub(Q25(monotonic), Mul(conformal.lower, CONFORMAL_MIDDLE_SHARE)),
        Q50(monotonic),
        Add(Q75(monotonic), Mul(conformal.upper, CONFORMAL_MIDDLE_SHARE)),
        Add(Q95(monotonic), conformal.upper) >>)

\* a calibration that tries the coverage fallback before the conformal path
calibrateCoverageFirst(quantiles, modelMeta) ==
    LET monotonic == enforceMonotonicQuantiles(quantiles)
        pi90 == modelMeta.coverage
    IN  IF modelMeta.isNull THEN monotonic
        ELSE IF pi90.has /\ ~Leq(pi90.coverage, I(0)) /\ ~Leq(pi90.target, I(0))
                /\ ~Leq(Sub(pi90.target, pi90.coverage), COVERAGE_TOLERANCE)
        THEN scaleIntervalAroundMedian(monotonic, tailScaleOf(pi90))
        ELSE IF conformalUsable(modelMeta.conformal)
        THEN conformalWiden(monotonic, modelMeta.conformal)
        ELSE monotonic

\* a calibration that repairs the raw input only when metadata is present
calibrateRepairWithMeta(quantiles, modelMeta) ==
    LET monotonic == enforceMonotonicQuantiles(quantiles)
        pi90 == modelMeta.coverage
    IN  IF modelMeta.isNull THEN quantiles
        ELSE IF conformalUsable(modelMeta.conformal)
        THEN conformalWiden(monotonic, modelMeta.conformal)
        ELSE IF ~pi90.has \/ Leq(pi90.coverage, I(0)) \/ Leq(pi90.target, I(0))
        THEN monotonic
        ELSE IF Leq(Sub(pi90.target, pi90.coverage), COVERAGE_TOLERANCE)
        THEN monotonic
        ELSE scaleIntervalAroundMedian(monotonic, tailScaleOf(pi90))

calibrateQuantiles(quantiles, modelMeta) ==
    LET monotonic == enforceMonotonicQuantiles(quantiles)
        pi90 == modelMeta.coverage
    IN  IF modelMeta.isNull THEN monotonic
        ELSE IF conformalUsable(modelMeta.conformal)
        THEN conformalWiden(monotonic, modelMeta.conformal)
        ELSE IF ~pi90.has \/ Leq(pi90.coverage, I(0)) \/ Leq(pi90.target, I(0))
        THEN monotonic
        ELSE IF Leq(Sub(pi90.target, pi90.coverage), COVERAGE_TOLERANCE)
        THEN monotonic
        ELSE scaleIntervalAroundMedian(monotonic, tailScaleOf(pi90))

(***************************************************************************)
(* constants.ts (ZONE_BOUNDARIES) and CounselingLogic.ts.  The repository  *)
(* holds two revisions of CounselingLogic.ts: src/unnamed/part_012 decides *)
(* the zone wide-interval first, src/unnamed/part_011 decides it from      *)
(* pBelow20 alone.                                                         *)
(***************************************************************************)
LOW_RISK_CEILING == R(10, 100)
HIGH_RISK_FLOOR == R(50, 100)
WIDE_INTERVAL_THRESHOLD == I(35)

\* Math.round on a number
MathRound(a) == IF IsFinite(a) THEN I(RoundInt(a)) ELSE a

\* Math.floor on a number
MathFloor(a) == IF IsFinite(a) THEN I(FloorInt(a)) ELSE a

\* a subgroup test that compares race_eth and age_decade but not sex
sparseMatchIgnoringSex(features, table) ==
    LET ageDec == Mul(MathFloor(Div(features.age, I(10))), I(10))
    IN  /\ table.has
        /\ \E k \in 1..Len(table.rows) :
              /\ table.rows[k].race_eth = features.race_eth
              /\ I(table.rows[k].age_decade) = ageDec

\* sparseSubgroups?.some(...) ?? false ; table.has = FALSE is an absent table
sparseMatch(features, table) ==
    LET ageDec == Mul(MathFloor(Div(features.age, I(10))), I(10))
    IN  /\ table.has
        /\ \E k \in 1..Len(table.rows) :
              /\ table.rows[k].race_eth = features.race_eth
              /\ table.rows[k].sex = features.sex
              /\ I(table.rows[k].age_decade) = ageDec

\* the probability-template description shared by the low, high and
\* moderate messages, and the wide-interval description
riskDescription(kind, thresholds, quantiles) ==
    [kind |-> kind,
     pct |-> MathRound(Mul(thresholds.pBelow20, I(100))),
     median |-> MathRound(Q50(quantiles))]

wideDescription(quantiles) ==
    [kind |-> "less precise", pct |-> I(0), median |-> MathRound(Q50(quantiles))]

\* part_012 lines 45-83
getZoneContent_p012(zone, thresholds, quantiles, wideInterval) ==
    CASE zone = "low" ->
           [zone |-> "low",
            headline |-> "Low Risk of Deficiency",
            description |-> riskDescription("about", thresholds, quantiles),
            recommendation |-> "lab test unlikely to find deficiency"]
      [] zone = "high" ->
           [zone |-> "high",
            headline |-> "Higher Risk of Deficiency",
            description |-> riskDescription("about", thresholds, quantiles),
            recommendation |-> "discuss supplementation and/or testing"]
      [] zone = "uncertain" ->
           [zone |-> "uncertain",
            headline |-> IF wideInterval
                         THEN "Uncertain Estimate - Consider Testing"
                         ELSE "Moderate Risk - Testing May Help",
            description |-> IF wideInterval
                            THEN wideDescription(quantiles)
                            ELSE riskDescription("about", thresholds, quantiles),
            recommendation |-> "a blood test would provide the most useful information"]

\* part_011 lines 49-89
getZoneContent_p011(zone, thresholds, quantiles, wideInterval) ==
    CASE zone = "low" ->
           [zone |-> "low",
            headline |-> "Your Vitamin D Is Probably Fine",
            description |-> riskDescription("only about", thresholds, quantiles),
            recommendation |-> "supplementation is unlikely to be necessary"]
      [] zone = "high" ->
           [zone |-> "high",
            headline |-> "Consider Vitamin D Supplementation",
            description |-> riskDescription("about", thresholds, quantiles),
            recommendation |-> "daily supplement (1000-2000 IU) worth discussing"]
      [] zone = "uncertain" ->
           [zone |-> "uncertain",
            headline |-> IF wideInterval
                         THEN "Uncertain Estimate - Low-Dose Supplementation Is Reasonable"
                         ELSE "Moderate Risk - Supplementation May Help",
            description |-> IF wideInterval
                            THEN wideDescription(quantiles)
                            ELSE riskDescription("about", thresholds, quantiles),
            recommendation |-> IF wideInterval
                               THEN "low-dose supplement (1000 IU daily) is a safe option"
                               ELSE "low-dose supplement (1000-2000 IU daily) is reasonable"]

\* the CounselingResult: the zone content plus the two warnings
counselingResult(content, wideInterval, sparseDataWarning) ==
    [zone |-> content.zone,
     headline |-> content.headline,
     description |-> content.description,
     recommendation |-> content.recommendation,
     wideIntervalWarning |-> wideInterval,
     sparseDataWarning |-> sparseDataWarning]

\* a zone decision whose low and high tests include their boundaries
generateCounselingInclusive(quantiles, thresholds, features, sparseSubgroups) ==
    LET pi90Width == Sub(Q95(quantiles), Q05(quantiles))
        wideInterval == Gt(pi90Width, WIDE_INTERVAL_THRESHOLD)
        sparseDataWarning == sparseMatch(features, sparseSubgroups)
        zone == IF wideInterval THEN "uncertain"
                ELSE IF Leq(thresholds.pBelow20, LOW_RISK_CEILING) THEN "low"
                ELSE IF Geq(thresholds.pBelow20, HIGH_RISK_FLOOR) THEN "high"
                ELSE "uncertain"
    IN  counselingResult(getZoneContent_p012(zone, thresholds, quantiles, wideInterval),
                         wideInterval, sparseDataWarning)

\* part_012 lines 7-43
generateCounseling_p012(quantiles, thresholds, features, sparseSubgroups) ==
    LET pi90Width == Sub(Q95(quantiles), Q05(quantiles))
        wideInterval == Gt(pi90Width, WIDE_INTERVAL_THRESHOLD)
        sparseDataWarning == sparseMatch(features, sparseSubgroups)
        zone == IF wideInterval THEN "uncertain"
                ELSE IF Lt(thresholds.pBelow20, LOW_RISK_CEILING) THEN "low"
                ELSE IF Gt(thresholds.pBelow20, HIGH_RISK_FLOOR) THEN "high"
                ELSE "uncertain"
    IN  counselingResult(getZoneContent_p012(zone, thresholds, quantiles, wideInterval),
                         wideInterval, sparseDataWarning)

\* part_011 lines 13-47
generateCounseling_p011(quantiles, thresholds, features, sparseSubgroups) ==
    LET pi90Width == Sub(Q95(quantiles), Q05(quantiles))
        wideInterval == Gt(pi90Width, WIDE_INTERVAL_THRESHOLD)
        sparseDataWarning == sparseMatch(features, sparseSubgroups)
        zone == IF Lt(thresholds.pBelow20, LOW_RISK_CEILING) THEN "low"
                ELSE IF Gt(thresholds.pBelow20, HIGH_RISK_FLOOR) THEN "high"
                ELSE "uncertain"
    IN  counselingResult(getZoneContent_p011(zone, thresholds, quantiles, wideInterval),
                         wideInterval, sparseDataWarning)

(***************************************************************************)
(* Math.exp, Math.log and rounding to decimals.  Math.exp is evaluated in  *)
(* fixed point with six decimals (Micro): its result is within 3e-6 of     *)
(* the true value; everything else stays exact.                            *)
(***************************************************************************)
Micro == 1000 * 1000

\* floor(a * b / Micro) for 0 <= a, b <= 2 * Micro, up to one unit
MulMicro(a, b) ==
    ((a \div 1000) * b) \div 1000 + ((a % 1000) * b) \div Micro

\* the alternating Taylor series of exp(-f / Micro), 0 <= f < Micro, from term k
RECURSIVE ExpSeries(_, _, _)
ExpSeries(f, k, term) ==
    IF term = 0 THEN 0
    ELSE term - ExpSeries(f, k + 1, MulMicro(term, f) \div (k + 1))

\* v * exp(-n), n a natural number; 367879 is exp(-1) in Micro units
RECURSIVE ScaleByExpNeg(_, _)
ScaleByExpNeg(v, n) ==
    IF n = 0 \/ v = 0 THEN v ELSE ScaleByExpNeg(MulMicro(v, 367879), n - 1)

\* exp(-u / Micro) in Micro units, u >= 0
ExpNegMicro(u) ==
    IF u >= 20 * Micro THEN 0
    ELSE ScaleByExpNeg(ExpSeries(u % Micro, 0, Micro), u \div Micro)

\* the remainder left after k decimal digits of r / d
RECURSIVE DecimalRemainder(_, _, _)
DecimalRemainder(r, d, k) ==
    IF k = 0 THEN r ELSE (DecimalRemainder(r, d, k - 1) * 10) % d

\* the first k decimal digits of r / d (0 <= r < d), as a natural number
RECURSIVE DecimalDigits(_, _, _)
DecimalDigits(r, d, k) ==
    IF k = 0 THEN 0
    ELSE DecimalDigits(r, d, k - 1) * 10
         + (DecimalRemainder(r, d, k - 1) * 10) \div d

RECURSIVE Pow10(_)
Pow10(k) == IF k = 0 THEN 1 ELSE 10 * Pow10(k - 1)

\* floor(a * Micro) of a finite a >= 0, capped at 20 * Micro
ToMicro(a) ==
    IF a.n \div a.d >= 20 THEN 20 * Micro
    ELSE (a.n \div a.d) * Micro + DecimalDigits(a.n % a.d, a.d, 6)

\* Math.exp
MathExp(a) ==
    IF IsNaN(a) THEN NaN
    ELSE IF ~IsFinite(a) THEN (IF a.n > 0 THEN PosInf ELSE I(0))
    ELSE IF a.n <= 0 THEN R(ExpNegMicro(ToMicro(Neg(a))), Micro)
    ELSE Div(I(1), R(ExpNegMicro(ToMicro(a)), Micro))

\* Math.log, to six decimals, at the one argument its callers pass: 50, both
\* as 0.05 / 0.001 and as (1 - 0.95) / 0.001
LN_50 == R(3912023, Micro)
MathLog(a) == IF a = I(50) THEN LN_50 ELSE NaN

\* Math.round(a * 10^k) / 10^k, exactly
RoundDecimals(a, k) ==
    IF ~IsFinite(a) THEN a
    ELSE LET q == a.n \div a.d
             r == a.n % a.d
             up == IF 2 * DecimalRemainder(r, a.d, k) >= a.d THEN 1 ELSE 0
         IN  R(q * Pow10(k) + DecimalDigits(r, a.d, k) + up, Pow10(k))

(***************************************************************************)
(* CdfBuilder.ts, first revision (lines 1-109): piecewise-linear interior  *)
(* with exponential tails.  A point is a record [x, y].                    *)
(***************************************************************************)
QUANTILE_LEVELS == <<R(5, 100), R(25, 100), R(50, 100), R(75, 100), R(95, 100)>>
SEVERE_DEFICIENCY == I(12)
DEFICIENCY == I(20)
INSUFFICIENCY == I(30)
CDF_STEP == R(1, 2)

computeLeftTailRate(q05Value, q05Level) ==
    Div(MathLog(Div(q05Level, R(1, 1000))), MathMax(I(10), q05Value))

computeRightTailRate(q95Value, q95Level) ==
    Div(MathLog(Div(Sub(I(1), q95Level), R(1, 1000))), I(10))

\* the interior loop of evaluateCdf, from index i on (1-based)
RECURSIVE interiorLoop(_, _, _, _)
interiorLoop(x, qValues, qLevels, i) ==
    IF i > Len(qValues) THEN I(1)
    ELSE IF Leq(x, qValues[i])
    THEN LET fraction == Div(Sub(x, qValues[i - 1]), Sub(qValues[i], qValues[i - 1]))
         IN  Add(qLevels[i - 1], Mul(fraction, Sub(qLevels[i], qLevels[i - 1])))
    ELSE interiorLoop(x, qValues, qLevels, i + 1)

\* evaluateCdf with the interior formula used at the two end quantiles too
evaluateCdfInteriorAtEnds(x, qValues, qLevels, leftRate, rightRate) ==
    IF Lt(x, qValues[1])
    THEN Mul(qLevels[1], MathExp(Mul(leftRate, Sub(x, qValues[1]))))
    ELSE IF Gt(x, qValues[Len(qValues)])
    THEN Sub(I(1), Mul(Sub(I(1), qLevels[Len(qLevels)]),
                       MathExp(Mul(Neg(rightRate), Sub(x, qValues[Len(qValues)])))))
    ELSE interiorLoop(x, qValues, qLevels, 2)

\* evaluateCdf with the right tail decaying to 0 instead of rising to 1
evaluateCdfFallingTail(x, qValues, qLevels, leftRate, rightRate) ==
    IF Leq(x, qValues[1])
    THEN Mul(qLevels[1], MathExp(Mul(leftRate, Sub(x, qValues[1]))))
    ELSE IF Geq(x, qValues[Len(qValues)])
    THEN Mul(Sub(I(1), qLevels[Len(qLevels)]),
             MathExp(Mul(Neg(rightRate), Sub(x, qValues[Len(qValues)]))))
    ELSE interiorLoop(x, qValues, qLevels, 2)

evaluateCdf(x, qValues, qLevels, leftRate, rightRate) ==
    IF Leq(x, qValues[1])
    THEN Mul(qLevels[1], MathExp(Mul(leftRate, Sub(x, qValues[1]))))
    ELSE IF Geq(x, qValues[Len(qValues)])
    THEN Sub(I(1), Mul(Sub(I(1), qLevels[Len(qLevels)]),
                       MathExp(Mul(Neg(rightRate), Sub(x, qValues[Len(qValues)])))))
    ELSE interiorLoop(x, qValues, qLevels, 2)

\* the loop `for (x = lo; x <= hi; x += step)': whether it ends, how many
\* iterations it makes, and the value of x in iteration k (1-based)
sampleLoopHangs(lo, hi) == Leq(lo, hi) /\ ~(IsFinite(lo) /\ IsFinite(hi))
sampleCount(lo, hi) ==
    IF ~Leq(lo, hi) THEN 0 ELSE FloorInt(Div(Sub(hi, lo), CDF_STEP)) + 1
sampleX(lo, k) == Add(lo, Mul(I(k - 1), CDF_STEP))

\* the sampling loop of lines 30-33
tailSamples(leftExtent, rightExtent, qValues, qLevels, leftRate, rightRate) ==
    [k \in 1..sampleCount(leftExtent, rightExtent) |->
        LET x == sampleX(leftExtent, k)
        IN  [x |-> RoundDecimals(x, 1),
             y |-> RoundDecimals(evaluateCdf(x, qValues, qLevels, leftRate, rightRate), 3)]]

\* the density loop of lines 36-45
differenceDensity(cdfPoints) ==
    [k \in 1..(Len(cdfPoints) - 1) |->
        LET i == k + 1
            dx == Sub(cdfPoints[i].x, cdfPoints[i - 1].x)
            dy == Sub(cdfPoints[i].y, cdfPoints[i - 1].y)
            density == IF Gt(dx, I(0)) THEN Div(dy, dx) ELSE I(0)
            midX == Div(Add(cdfPoints[i].x, cdfPoints[i - 1].x), I(2))
        IN  [x |-> RoundDecimals(midX, 1), y |-> RoundDecimals(density, 4)]]

\* what buildCdf hands back: a CdfResult, an exception, or no return at all
CdfReturned(p12, p20, p30, cdfPoints, densityPoints) ==
    [outcome |-> "returned", pBelow12 |-> p12, pBelow20 |-> p20, pBelow30 |-> p30,
     cdfPoints |-> cdfPoints, densityPoints |-> densityPoints]
CdfThrew == [outcome |-> "threw", pBelow12 |-> NaN, pBelow20 |-> NaN, pBelow30 |-> NaN,
             cdfPoints |-> <<>>, densityPoints |-> <<>>]
CdfHangs == [outcome |-> "hangs", pBelow12 |-> NaN, pBelow20 |-> NaN, pBelow30 |-> NaN,
             cdfPoints |-> <<>>, densityPoints |-> <<>>]

tailsResult(qValues, qLevels, leftRate, rightRate, cdfPoints) ==
    CdfReturned(
        RoundDecimals(evaluateCdf(SEVERE_DEFICIENCY, qValues, qLevels, leftRate, rightRate), 3),
        RoundDecimals(evaluateCdf(DEFICIENCY, qValues, qLevels, leftRate, rightRate), 3),
        RoundDecimals(evaluateCdf(INSUFFICIENCY, qValues, qLevels, leftRate, rightRate), 3),
        cdfPoints, differenceDensity(cdfPoints))

buildCdf_tails(quantiles) ==
    LET qValues == quantiles
        qLevels == QUANTILE_LEVELS
        leftExtent == MathMax(I(0), Sub(qValues[1], I(15)))
        leftRate == computeLeftTailRate(qValues[1], qLevels[1])
        rightExtent == Add(qValues[5], I(15))
        rightRate == computeRightTailRate(qValues[5], qLevels[5])
    IN  IF sampleLoopHangs(leftExtent, rightExtent) THEN CdfHangs
        ELSE tailsResult(qValues, qLevels, leftRate, rightRate,
                         tailSamples(leftExtent, rightExtent, qValues, qLevels,
                                     leftRate, rightRate))

(***************************************************************************)
(* CdfBuilder.ts, second revision (lines 111-232): a mixture of Gaussian   *)
(* kernels, normalised and integrated by the trapezoid rule.               *)
(***************************************************************************)
\* 1 / Math.sqrt(2 * Math.PI), in Micro units
INV_SQRT_TWO_PI == 398942

\* floor(a * n / d) for naturals a, n, d with a * d and n * d in range
MulDiv(a, n, d) == (a \div d) * n + ((a % d) * n) \div d

\* with a non-finite z or sigma the quotient is 0, NaN or an infinity, the
\* same for every positive finite factor in place of Math.sqrt(2 * Math.PI)
gaussian(x, mu, sigma) ==
    LET z == Div(Sub(x, mu), sigma)
        e == MathExp(Neg(Mul(R(1, 2), Mul(z, z))))
    IN  IF ~(IsFinite(z) /\ IsFinite(sigma)) THEN Div(e, Mul(sigma, I(3)))
        ELSE R(MulMicro(e.n * (Micro \div e.d),
                        MulDiv(INV_SQRT_TWO_PI, sigma.d, sigma.n)), Micro)

Kernel(mu, sigma, weight) == [mu |-> mu, sigma |-> sigma, weight |-> weight]

\* lines 131-153
kernelsOf(qValues, qLevels, bandwidth) ==
    <<Kernel(qValues[1], Mul(bandwidth, R(12, 10)), qLevels[1])>>
    \o [i \in 1..(Len(qValues) - 1) |->
          Kernel(Div(Add(qValues[i], qValues[i + 1]), I(2)),
                 MathMax(R(15, 10), Div(Sub(qValues[i + 1], qValues[i]), I(2))),
                 Sub(qLevels[i + 1], qLevels[i]))]
    \o <<Kernel(qValues[5], Mul(bandwidth, R(12, 10)), Sub(I(1), qLevels[5]))>>

\* the inner loop of lines 166-169
RECURSIVE mixtureDensity(_, _, _)
mixtureDensity(x, kernels, j) ==
    IF j = 0 THEN I(0)
    ELSE Add(mixtureDensity(x, kernels, j - 1),
             Mul(kernels[j].weight, gaussian(x, kernels[j].mu, kernels[j].sigma)))

\* lines 164-171
rawDensityOf(minX, maxX, kernels) ==
    [k \in 1..sampleCount(minX, maxX) |->
        LET x == sampleX(minX, k)
        IN  [x |-> RoundDecimals(x, 1), y |-> mixtureDensity(x, kernels, Len(kernels))]]

\* the area of the trapezoid between points i - 1 and i
trapezoid(points, i) ==
    Mul(Div(Add(points[i].y, points[i - 1].y), I(2)), CDF_STEP)

\* the running sums of trapezoid(points, lo + 1 .. hi): element k is the sum up to lo + k
RECURSIVE runningArea(_, _, _)
runningArea(points, lo, hi) ==
    IF hi <= lo THEN <<>>
    ELSE IF hi = lo + 1 THEN <<trapezoid(points, hi)>>
    ELSE LET mid == (lo + hi) \div 2
             left == runningArea(points, lo, mid)
             right == runningArea(points, mid, hi)
         IN  left \o [k \in 1..Len(right) |-> Add(left[Len(left)], right[k])]

\* lines 174-177
totalAreaOf(rawDensity) ==
    LET sums == runningArea(rawDensity, 1, Len(rawDensity))
    IN  IF Len(sums) = 0 THEN I(0) ELSE sums[Len(sums)]

\* lines 181-186
normalizedDensity(rawDensity, scale) ==
    [k \in 1..Len(rawDensity) |->
        [x |-> rawDensity[k].x, y |-> RoundDecimals(Mul(rawDensity[k].y, scale), 4)]]

\* integratedCdf without the accumulation: each point gets its own trapezoid
integratedCdfNoRunningSum(densityPoints, sums) ==
    [k \in 1..Len(densityPoints) |->
        LET cumulative == IF k = 1 THEN I(0) ELSE trapezoid(densityPoints, k)
        IN  [x |-> densityPoints[k].x,
             y |-> RoundDecimals(MathMin(I(1), cumulative), 3)]]

\* lines 189-198
integratedCdf(densityPoints, sums) ==
    [k \in 1..Len(densityPoints) |->
        LET cumulative == IF k = 1 THEN I(0) ELSE sums[k - 1]
        IN  [x |-> densityPoints[k].x,
             y |-> RoundDecimals(MathMin(I(1), cumulative), 3)]]

\* lines 220-232; called only with a non-empty cdfPoints
interpolateCdf(cdfPoints, target) ==
    IF Leq(target, cdfPoints[1].x) THEN I(0)
    ELSE IF Geq(target, cdfPoints[Len(cdfPoints)].x) THEN I(1)
    ELSE LET hits == {i \in 2..Len(cdfPoints) : Geq(cdfPoints[i].x, target)}
         IN  IF hits = {} THEN I(1)
             ELSE LET i == CHOOSE h \in hits : \A o \in hits : h <= o
                      frac == Div(Sub(target, cdfPoints[i - 1].x),
                                  Sub(cdfPoints[i].x, cdfPoints[i - 1].x))
                  IN  Add(cdfPoints[i - 1].y,
                          Mul(frac, Sub(cdfPoints[i].y, cdfPoints[i - 1].y)))

kernelResult(cdfPoints, densityPoints) ==
    IF Len(cdfPoints) = 0 THEN CdfThrew
    ELSE CdfReturned(RoundDecimals(interpolateCdf(cdfPoints, SEVERE_DEFICIENCY), 3),
                     RoundDecimals(interpolateCdf(cdfPoints, DEFICIENCY), 3),
                     RoundDecimals(interpolateCdf(cdfPoints, INSUFFICIENCY), 3),
                     cdfPoints, densityPoints)

kernelIntegrate(densityPoints) ==
    kernelResult(integratedCdf(densityPoints,
                               runningArea(densityPoints, 1, Len(densityPoints))),
                 densityPoints)

kernelNormalize(rawDensity, totalArea) ==
    kernelIntegrate(normalizedDensity(rawDensity,
        IF Gt(totalArea, I(0)) THEN Div(I(1), totalArea) ELSE I(1)))

kernelDensity(rawDensity) == kernelNormalize(rawDensity, totalAreaOf(rawDensity))

buildCdf_kernels(quantiles) ==
    LET qValues == quantiles
        qLevels == QUANTILE_LEVELS
        iqr == Sub(qValues[4], qValues[2])
        bandwidth == MathMax(I(2), Div(iqr, R(25, 10)))
        minX == MathMax(I(0), Sub(qValues[1], Mul(I(3), bandwidth)))
        maxX == Add(qValues[5], Mul(I(3), bandwidth))
    IN  IF sampleLoopHangs(minX, maxX) THEN CdfHangs
        ELSE kernelDensity(rawDensityOf(minX, maxX, kernelsOf(qValues, qLevels, bandwidth)))

(***************************************************************************)
(* ThresholdCalculator.ts, ModelRunner (part_009) and the body of          *)
(* runInference in useInference.ts.  A build is one choice among the       *)
(* revisions of the hook, of CdfBuilder and of CounselingLogic.            *)
(***************************************************************************)
buildCdfOf(build, quantiles) ==
    IF build.cdf = "tails" THEN buildCdf_tails(quantiles) ELSE buildCdf_kernels(quantiles)

generateCounselingOf(build, quantiles, thresholds, features, sparseSubgroups) ==
    IF build.counsel = "part_012"
    THEN generateCounseling_p012(quantiles, thresholds, features, sparseSubgroups)
    ELSE generateCounseling_p011(quantiles, thresholds, features, sparseSubgroups)

\* a selection that takes pBelow20 from the wrong field of the CdfResult
thresholdsFromWrongField(cdf) ==
    [pBelow12 |-> cdf.pBelow12, pBelow20 |-> cdf.pBelow30, pBelow30 |-> cdf.pBelow30]

\* ThresholdCalculator.ts lines 16-22
thresholdsFromCdf(cdf) ==
    [pBelow12 |-> cdf.pBelow12, pBelow20 |-> cdf.pBelow20, pBelow30 |-> cdf.pBelow30]

\* ThresholdCalculator.ts lines 8-14
calculateThresholds(build, quantiles) == thresholdsFromCdf(buildCdfOf(build, quantiles))

(***************************************************************************)
(* buildCdf(quantiles, calibration), the revision that calculateThresholds *)
(* and runInference call with two arguments.  Its source is not among the  *)
(* files at hand; the computation of the threshold probabilities is taken  *)
(* from the design description (CdfBuilder, steps 1-4 and 7).  A knot is a *)
(* record [x, p]; a calibration table is [has, rows], each row             *)
(* [has, actual], has = FALSE for a missing table or row.                  *)
(***************************************************************************)
KNOT_EPSILON == R(1, 1000)
MIN_SLOPE == R(1, 1000)
MIN_RIGHT_ANCHOR_GAP == R(1, 2)

NoCalibration == [has |-> FALSE, rows |-> [i \in 1..5 |-> [has |-> FALSE, actual |-> I(0)]]]

clamp01(a) == MathMax(I(0), MathMin(I(1), a))

\* step 1 with the nominal level whatever the calibration
nominalKnotProbability(calibration, i) == QUANTILE_LEVELS[i]

\* step 1: the probability of knot i
resolveKnotProbability(calibration, i) ==
    IF calibration.has /\ calibration.rows[i].has
    THEN clamp01(calibration.rows[i].actual)
    ELSE QUANTILE_LEVELS[i]

\* step 2: knots 1..i, each nudged past its predecessor where it is not
\* strictly greater
RECURSIVE guardKnots(_, _, _)
guardKnots(quantiles, calibration, i) ==
    IF i = 1
    THEN <<[x |-> quantiles[1], p |-> resolveKnotProbability(calibration, 1)]>>
    ELSE LET before == guardKnots(quantiles, calibration, i - 1)
             prev == before[i - 1]
             p == resolveKnotProbability(calibration, i)
         IN  Append(before,
                    [x |-> IF Gt(quantiles[i], prev.x) THEN quantiles[i]
                           ELSE Add(prev.x, KNOT_EPSILON),
                     p |-> IF Gt(p, prev.p) THEN p ELSE Add(prev.p, KNOT_EPSILON)])

\* step 3
slopeBetween(a, b) == MathMax(MIN_SLOPE, Div(Sub(b.p, a.p), Sub(b.x, a.x)))

\* step 4: the seven points, from the anchor at probability 0 to the one at 1
withAnchors(knots) ==
    LET leftSlope == slopeBetween(knots[1], knots[2])
        rightSlope == slopeBetween(knots[4], knots[5])
        leftAnchorX == MathMax(I(0), Sub(knots[1].x, Div(knots[1].p, leftSlope)))
        rightAnchorX == MathMax(Add(knots[5].x, MIN_RIGHT_ANCHOR_GAP),
                                Add(knots[5].x, Div(Sub(I(1), knots[5].p), rightSlope)))
    IN  <<[x |-> leftAnchorX, p |-> I(0)]>> \o knots \o <<[x |-> rightAnchorX, p |-> I(1)]>>

\* step 7: linear interpolation of the points at x
RECURSIVE knotInterpolate(_, _, _)
knotInterpolate(points, x, i) ==
    IF i > Len(points) THEN I(1)
    ELSE IF Leq(x, points[i].x)
    THEN IF i = 1 \/ ~Gt(points[i].x, points[i - 1].x) THEN points[i].p
         ELSE Add(points[i - 1].p,
                  Mul(Div(Sub(x, points[i - 1].x), Sub(points[i].x, points[i - 1].x)),
                      Sub(points[i].p, points[i - 1].p)))
    ELSE knotInterpolate(points, x, i + 1)

knotThresholds(points) ==
    [pBelow12 |-> clamp01(knotInterpolate(points, SEVERE_DEFICIENCY, 1)),
     pBelow20 |-> clamp01(knotInterpolate(points, DEFICIENCY, 1)),
     pBelow30 |-> clamp01(knotInterpolate(points, INSUFFICIENCY, 1))]

\* the threshold probabilities of buildCdf(quantiles, calibration)
buildCdf_knots(quantiles, calibration) ==
    knotThresholds(withAnchors(guardKnots(quantiles, calibration, 5)))

\* ThresholdCalculator.ts lines 8-14, with the two-argument buildCdf
calculateThresholds_knots(quantiles, calibration) ==
    thresholdsFromCdf(buildCdf_knots(quantiles, calibration))

\* a predict that returns the session outputs as they are
predictUnrepaired(outputs) == outputs

\* the end of predict (part_009 lines 278-292): the five session outputs,
\* each raised to its predecessor when it lies below it
predictResult(outputs) == monotonicLoop(outputs, 2)

\* what the try block of runInference produces: an InferenceResult
\* (outcome "returned"), an exception ("threw") or nothing at all ("hangs")
InferenceOutcome(cdf, quantiles, thresholds, counseling, features) ==
    [outcome |-> cdf.outcome, quantiles |-> quantiles, thresholds |-> thresholds,
     cdf |-> cdf, counseling |-> counseling, features |-> features]

\* lines 108-138 (30-57 without calibration): from the CdfResult to the result
inferenceFromCdf(build, quantiles, cdf, thresholds, features, sparseSubgroups) ==
    InferenceOutcome(cdf, quantiles, thresholds,
                     generateCounselingOf(build, quantiles, thresholds, features,
                                          sparseSubgroups),
                     features)

\* useInference.ts lines 22-60: the hook without calibration
tryBlock_plain(build, rawQuantiles, features) ==
    inferenceFromCdf(build, rawQuantiles, buildCdfOf(build, rawQuantiles),
                     calculateThresholds(build, rawQuantiles), features,
                     [has |-> FALSE, rows |-> <<>>])

\* lines 107-116, with the calibrated quantiles and their CdfResult
inferenceFromCalibrated(build, modelMeta, quantiles, cdf, features) ==
    inferenceFromCdf(build, quantiles, cdf, thresholdsFromCdf(cdf), features,
                     IF modelMeta.isNull THEN [has |-> FALSE, rows |-> <<>>]
                     ELSE modelMeta.sparse)

\* lines 104-107, with the calibrated quantiles
inferenceOfCalibrated(build, modelMeta, quantiles, features) ==
    inferenceFromCalibrated(build, modelMeta, quantiles, buildCdfOf(build, quantiles),
                            features)

\* a try block that calibrates for the CDF only: the stored quantiles and
\* the counseling are those of the raw quantiles
tryBlock_rawCounseling(build, modelMeta, rawQuantiles, features) ==
    inferenceFromCalibrated(build, modelMeta, rawQuantiles,
                            buildCdfOf(build, calibrateQuantiles(rawQuantiles, modelMeta)),
                            features)

\* useInference.ts lines 96-141: the hook with calibration
tryBlock_calibrating(build, modelMeta, rawQuantiles, features) ==
    inferenceOfCalibrated(build, modelMeta, calibrateQuantiles(rawQuantiles, modelMeta),
                          features)

tryBlock(build, modelMeta, rawQuantiles, features) ==
    IF build.hook = "calibrating"
    THEN tryBlock_calibrating(build, modelMeta, rawQuantiles, features)
    ELSE tryBlock_plain(build, rawQuantiles, features)

(***************************************************************************)
(* Bounds of the model and the inputs drawn within them                    *)
(***************************************************************************)
MaxCdfIdx == 5
MaxRawIdx == 2
MaxWidthSteps == 3
ProbSteps == 10

\* raw quantile values handed to calibrateQuantiles: 15, 25, 35, ...
RawValues == {I(15 + 10 * k) : k \in 0..MaxRawIdx}
\* Scenario C of the specification, a crossed input
ScenarioC == <<I(30), I(20), I(28), I(36), I(45)>>
RawQuantiles == [1..5 -> RawValues] \cup {ScenarioC}

Conformals ==
    {NoConformal} \cup
    {[has |-> TRUE, lower |-> lu[1], upper |-> lu[2]] :
        lu \in {<<I(0), I(0)>>, <<I(2), I(3)>>, <<I(5), I(0)>>, <<R(1, 2), I(40)>>,
                <<I(-1), I(2)>>, <<I(2), I(-1)>>, <<NaN, I(1)>>, <<I(1), PosInf>>}}

Coverages ==
    {NoCoverage} \cup
    {[has |-> TRUE, coverage |-> R(ct[1], 1000), target |-> R(ct[2], 1000)] :
        ct \in {<<900, 900>>, <<895, 900>>, <<894, 900>>, <<800, 900>>, <<500, 900>>,
                <<5, 900>>, <<0, 900>>, <<-100, 900>>, <<900, 0>>, <<950, 900>>}}

Metas ==
    {NullMeta} \cup
    {[isNull |-> FALSE, conformal |-> c, coverage |-> v] :
        c \in Conformals, v \in Coverages}

\* inputs of generateCounseling
IntervalWidths == {R(69 + k, 2) : k \in 0..MaxWidthSteps} \cup {I(20), I(55)}
CounselQuantiles ==
    {<<lo, Add(lo, I(5)), Add(lo, I(10)), Add(lo, I(15)), Add(lo, w)>> :
        lo \in {I(5), I(10)}, w \in IntervalWidths}
Probabilities ==
    {R(k, ProbSteps) : k \in 0..ProbSteps} \cup
    {R(k, 1000) : k \in {99, 100, 101, 499, 500, 501}}
CounselThresholds ==
    {[pBelow12 |-> Mul(p, R(1, 2)), pBelow20 |-> p, pBelow30 |-> p] : p \in Probabilities}
NoSparseTable == [has |-> FALSE, rows |-> <<>>]
SparseTables ==
    {NoSparseTable,
     [has |-> TRUE, rows |-> <<>>],
     [has |-> TRUE, rows |-> <<[race_eth |-> 3, sex |-> 1, age_decade |-> 60]>>],
     [has |-> TRUE, rows |-> <<[race_eth |-> 2, sex |-> 1, age_decade |-> 60]>>],
     [has |-> TRUE, rows |-> <<[race_eth |-> 3, sex |-> 2, age_decade |-> 60],
                               [race_eth |-> 3, sex |-> 1, age_decade |-> 50]>>]}
CounselFeatures ==
    {[age |-> I(a), sex |-> 1, race_eth |-> 3] : a \in {59, 67}}

(***************************************************************************)
(* FeatureEncoder: encodeFeatures and the constants it reads.  A user      *)
(* input is [age, sex, bmi, skinTone, month, hasDose, dose]; hasDose =     *)
(* FALSE is an undefined supplementDoseIU.                                 *)
(***************************************************************************)
FEATURE_RANGES ==
    [age |-> [min |-> I(18), max |-> I(90)], bmi |-> [min |-> I(10), max |-> I(80)]]
SUPPLEMENT_BINS ==
    <<[max |-> I(0), label |-> "None", category |-> 0],
      [max |-> I(400), label |-> "Trace (<400 IU)", category |-> 1],
      [max |-> I(1000), label |-> "Low (400-999 IU)", category |-> 2],
      [max |-> I(2000), label |-> "Moderate (1000-1999 IU)", category |-> 3],
      [max |-> PosInf, label |-> "High (2000+ IU)", category |-> 4]>>
WINTER_MONTHS == <<11, 12, 1, 2, 3, 4>>
SKIN_TONE_MAP ==
    <<[fitzpatrick |-> 1, raceEthEncoding |-> 2],
      [fitzpatrick |-> 2, raceEthEncoding |-> 2],
      [fitzpatrick |-> 3, raceEthEncoding |-> 4],
      [fitzpatrick |-> 4, raceEthEncoding |-> 1],
      [fitzpatrick |-> 5, raceEthEncoding |-> 4],
      [fitzpatrick |-> 6, raceEthEncoding |-> 3]>>

\* SKIN_TONE_MAP.find(...)?.raceEthEncoding ?? 4
skinToneToRaceEth(fitzpatrick) ==
    IF \E k \in 1..Len(SKIN_TONE_MAP) : SKIN_TONE_MAP[k].fitzpatrick = fitzpatrick
    THEN SKIN_TONE_MAP[CHOOSE k \in 1..Len(SKIN_TONE_MAP) :
                           /\ SKIN_TONE_MAP[k].fitzpatrick = fitzpatrick
                           /\ \A j \in 1..(k - 1) :
                                 SKIN_TONE_MAP[j].fitzpatrick # fitzpatrick].raceEthEncoding
    ELSE 4

\* a clamp that applies the upper limit only
clampFromAbove(range, value) == MathMin(range.max, value)

\* Math.max(range.min, Math.min(range.max, value))
clampToRange(range, value) == MathMax(range.min, MathMin(range.max, value))

\* the loop over SUPPLEMENT_BINS: the category of the first bin with
\* doseIU <= bin.max, 0 when there is none
binCategory(doseIU) ==
    IF \E k \in 1..Len(SUPPLEMENT_BINS) : Leq(doseIU, SUPPLEMENT_BINS[k].max)
    THEN SUPPLEMENT_BINS[CHOOSE k \in 1..Len(SUPPLEMENT_BINS) :
                             /\ Leq(doseIU, SUPPLEMENT_BINS[k].max)
                             /\ \A j \in 1..(k - 1) :
                                   ~Leq(doseIU, SUPPLEMENT_BINS[j].max)].category
    ELSE 0

\* QuantileCalibration.ts lines 104-137
encodeFeatures(inputs) ==
    [age |-> clampToRange(FEATURE_RANGES.age, inputs.age),
     sex |-> IF inputs.sex = "female" THEN 1 ELSE 0,
     bmi |-> clampToRange(FEATURE_RANGES.bmi, inputs.bmi),
     race_eth |-> skinToneToRaceEth(inputs.skinTone),
     exam_season |-> IF \E k \in 1..Len(WINTER_MONTHS) : WINTER_MONTHS[k] = inputs.month
                     THEN 1 ELSE 2,
     supplement_cat |-> binCategory(IF inputs.hasDose THEN inputs.dose ELSE I(0))]

RECURSIVE Pow2(_)
\* new Float32Array([...]): a finite value of magnitude 1 .. 2^24 is rounded
\* to the nearest number with a 24-bit significand (ties to even); whole
\* numbers below 2^24, NaN and the infinities are kept
Pow2(k) == IF k = 0 THEN 1 ELSE 2 * Pow2(k - 1)
RoundHalfEven(a) ==
    LET q == a.n \div a.d
        r == a.n % a.d
    IN  IF 2 * r > a.d THEN q + 1
        ELSE IF 2 * r < a.d THEN q
        ELSE IF q % 2 = 0 THEN q ELSE q + 1
ToFloat32(a) ==
    IF ~IsFinite(a) \/ a.d = 1 \/ Lt(a, I(1)) THEN a
    ELSE LET e == CHOOSE k \in 0..23 : Leq(I(Pow2(k)), a) /\ Lt(a, I(Pow2(k + 1)))
             quantum == R(1, Pow2(23 - e))
         IN  Mul(I(RoundHalfEven(Div(a, quantum))), quantum)

\* FeatureEncoder: featuresToArray, lines 142-151
featuresToArray(features) ==
    <<ToFloat32(features.age), I(features.sex), ToFloat32(features.bmi),
      I(features.race_eth), I(features.exam_season), I(features.supplement_cat)>>

\* part_009 lines 298-336 (lines 89-127 in the first revision)
mockPredict(features) ==
    LET age == features[1]
        sex == features[2]
        bmi == features[3]
        race_eth == features[4]
        exam_season == features[5]
        supplement_cat == features[6]
        afterAge == Sub(I(28), Mul(MathMax(I(0), Sub(age, I(40))), R(1, 10)))
        afterSex == Sub(afterAge, Mul(sex, I(2)))
        afterBmi == Sub(afterSex, Mul(MathMax(I(0), Sub(bmi, I(25))), R(3, 10)))
        afterRace == IF race_eth = I(3) THEN Sub(afterBmi, I(10))
                     ELSE IF race_eth = I(0) \/ race_eth = I(1) THEN Sub(afterBmi, I(4))
                     ELSE IF race_eth = I(4) THEN Sub(afterBmi, I(3))
                     ELSE afterBmi
        afterSeason == IF exam_season = I(1) THEN Sub(afterRace, I(4)) ELSE afterRace
        afterSupplement == Add(afterSeason, Mul(supplement_cat, I(3)))
        median == MathMax(I(5), MathMin(I(80), afterSupplement))
        spread == Add(I(8), Mul(Sub(bmi, I(25)), R(2, 10)))
    IN  <<MathMax(I(3), Sub(median, Mul(I(2), spread))),
          MathMax(I(4), Sub(median, Mul(R(8, 10), spread))),
          median,
          Add(median, Mul(R(8, 10), spread)),
          Add(median, Mul(I(2), spread))>>

\* what the form and its callers hand to encodeFeatures
EncodeAges == {I(-5), I(17), I(18), R(405, 10), I(90), I(91), PosInf}
EncodeBmis == {I(0), R(99, 10), I(10), R(273, 10), I(80), I(81)}
EncodeSkinTones == {0, 1, 4, 6, 7}
EncodeMonths == {0, 1, 4, 5, 10, 11, 12, 13}
EncodeDoses ==
    {I(-100), I(0), I(1), I(399), I(400), I(401), I(999), I(1000), I(1001),
     I(1999), I(2000), I(4000), I(5000)}
NoUserInputs ==
    [age |-> I(0), sex |-> "none", bmi |-> I(0), skinTone |-> 0, month |-> 0,
     hasDose |-> FALSE, dose |-> I(0)]
NoFeatures ==
    [age |-> I(0), sex |-> 0, bmi |-> I(0), race_eth |-> 0, exam_season |-> 0,
     supplement_cat |-> 0]
EncodeInputs ==
    {[age |-> a, sex |-> x, bmi |-> b, skinTone |-> t, month |-> m,
      hasDose |-> h, dose |-> d] :
        a \in EncodeAges, x \in {"male", "female"}, b \in {I(0), R(273, 10), I(81)},
        t \in {0, 4}, m \in {0, 4, 5}, h \in {TRUE}, d \in EncodeDoses}
    \cup
    {[age |-> a, sex |-> "female", bmi |-> b, skinTone |-> t, month |-> m,
      hasDose |-> FALSE, dose |-> I(0)] :
        a \in {I(17), R(405, 10)}, b \in EncodeBmis, t \in EncodeSkinTones,
        m \in EncodeMonths}

(***************************************************************************)
(* State                                                                   *)
(*   calib   : one call of calibrateQuantiles (input, metadata, result)    *)
(*   counsel : one call of generateCounseling (input, revision, result)    *)
(*   cdfv    : one call of buildCdf (input, revision, result)              *)
(*   hook    : the useInference hook and the runInference calls in flight  *)
(*   thr     : one call of calculateThresholds (input, calibration, result) *)
(*   enc     : one call of encodeFeatures (input, result)                  *)
(*   runner  : the ModelRunner module: sessions, flags, loads and predicts  *)
(***************************************************************************)
\* the quantile values buildCdf is called with: the clinical thresholds and
\* values on either side of them
CdfGrid == <<12, 20, 30, 45, 5, 60>>
CdfValues == {I(CdfGrid[k]) : k \in 1..MaxCdfIdx}
ScenarioA == <<I(15), I(20), I(28), I(36), I(45)>>
OrderedCdfInputs == {q \in [1..5 -> CdfValues] : \A i \in 1..4 : Leq(q[i], q[i + 1])}
CrossedCdfInputs ==
    {ScenarioC,
     <<I(45), I(30), I(20), I(12), I(12)>>,
     <<I(30), I(12), I(45), I(20), I(12)>>,
     <<I(12), I(45), I(20), I(30), I(20)>>,
     <<I(20), I(20), I(12), I(45), I(30)>>,
     <<I(15), I(0), I(36), I(3), I(0)>>}
CdfInputs ==
    OrderedCdfInputs \cup CrossedCdfInputs
    \cup {ScenarioA, <<I(25), I(25), I(25), I(25), I(25)>>,
          <<R(123, 10), I(20), R(251, 10), I(30), R(417, 10)>>,
          <<I(8), I(12), I(20), I(30), I(40)>>,
          <<I(12), I(16), I(20), I(24), I(30)>>,
          <<I(2), I(12), I(20), I(30), I(45)>>}

NoQuantiles == <<I(0), I(0), I(0), I(0), I(0)>>
NoThresholds == [pBelow12 |-> I(0), pBelow20 |-> I(0), pBelow30 |-> I(0)]
NoCounseling ==
    [zone |-> "none", headline |-> "", description |-> wideDescription(NoQuantiles),
     recommendation |-> "", wideIntervalWarning |-> FALSE, sparseDataWarning |-> FALSE]

\* the builds, the metadata getModelMeta returns, and what the five ONNX
\* sessions put out
Builds ==
    [hook : {"plain", "calibrating"}, cdf : {"tails", "kernels"},
     counsel : {"part_012", "part_011"}]
HookNullMeta ==
    [isNull |-> TRUE, conformal |-> NoConformal, coverage |-> NoCoverage,
     sparse |-> NoSparseTable]
HookMetas ==
    {HookNullMeta,
     [isNull |-> FALSE,
      conformal |-> [has |-> TRUE, lower |-> I(2), upper |-> I(3)],
      coverage |-> NoCoverage,
      sparse |-> [has |-> TRUE, rows |-> <<[race_eth |-> 3, sex |-> 1, age_decade |-> 60]>>]]}
FiniteOutputs ==
    {ScenarioA, ScenarioC,
     <<I(25), I(25), I(25), I(25), I(25)>>,
     <<I(5), I(15), I(25), I(35), I(45)>>,
     <<I(12), I(20), I(28), I(36), I(45)>>}
NonFiniteOutputs ==
    {<<NaN, I(20), I(28), I(36), I(45)>>,
     <<I(15), I(20), NaN, I(36), I(45)>>,
     <<I(15), I(20), I(28), I(36), PosInf>>,
     <<NegInf, I(20), I(28), I(36), I(45)>>}
SessionOutputs == FiniteOutputs \cup NonFiniteOutputs
LaterOutputs == {<<I(12), I(16), I(20), I(24), I(30)>>}
HookFeatures == [age |-> I(67), sex |-> 1, race_eth |-> 3]
Requests == {"first", "second"}

\* inputs of calculateThresholds: quantiles, and calibration tables that are
\* absent, empty, partial, complete, out of range and out of order
KnotValues == {I(12), I(20), I(30)}
KnotQuantiles ==
    [1..5 -> KnotValues]
    \cup {ScenarioA, ScenarioC,
          <<I(12), I(20), I(30), I(36), I(45)>>,
          <<I(5), I(12), I(20), I(30), I(45)>>,
          <<I(25), I(25), I(25), I(25), I(25)>>}
CalibrationRows(actuals) ==
    [has |-> TRUE, rows |-> [i \in 1..5 |-> [has |-> TRUE, actual |-> actuals[i]]]]
Calibrations ==
    {NoCalibration,
     [has |-> TRUE, rows |-> NoCalibration.rows],
     [has |-> TRUE,
      rows |-> [NoCalibration.rows EXCEPT ![2] = [has |-> TRUE, actual |-> R(30, 100)]]],
     CalibrationRows(<<R(6, 100), R(27, 100), R(50, 100), R(74, 100), R(93, 100)>>),
     CalibrationRows(<<R(-1, 10), R(30, 100), R(50, 100), R(80, 100), R(12, 10)>>),
     CalibrationRows(<<R(30, 100), R(20, 100), R(50, 100), R(70, 100), R(90, 100)>>)}

CalibIdle == [pc |-> "idle", raw |-> NoQuantiles, meta |-> NullMeta, out |-> NoQuantiles]
CounselIdle ==
    [pc |-> "idle", rev |-> "none", quantiles |-> NoQuantiles, thresholds |-> NoThresholds,
     features |-> [age |-> I(0), sex |-> 0, race_eth |-> 0],
     sparse |-> NoSparseTable, out |-> NoCounseling]
NoCdfResult == [outcome |-> "none", pBelow12 |-> NaN, pBelow20 |-> NaN, pBelow30 |-> NaN,
                cdfPoints |-> <<>>, densityPoints |-> <<>>]
CdfIdle == [pc |-> "idle", revision |-> "none", quantiles |-> NoQuantiles, result |-> NoCdfResult]
ThrIdle == [pc |-> "idle", quantiles |-> NoQuantiles, calibration |-> NoCalibration,
            out |-> NoThresholds]
EncIdle == [pc |-> "idle", inputs |-> NoUserInputs, out |-> NoFeatures]
\* ModelRunner (part_009): the module-level variables of either revision,
\* the loadModels calls and their loads, and the predict call in flight.
\* A load is named after the loadModels call that started it.
MODEL_KEYS == <<"q05", "q25", "q50", "q75", "q95">>
KeyIdx == 1..Len(MODEL_KEYS)
Callers == {"c1", "c2"}
MetaVersions == {"metaA", "metaB"}
MaxLoadCalls == 2
MaxPredicts == 2
NoLoad ==
    [pc |-> "none", awaitsMeta |-> "none", key |-> 0, metaSettled |-> FALSE,
     created |-> [k \in KeyIdx |-> 0], creation |-> [k \in KeyIdx |-> "none"]]
NoCaller ==
    [pc |-> "idle", on |-> "none", availableAtCall |-> FALSE, promiseAtCall |-> "null",
     loadOutcome |-> "none"]
NoPredict ==
    [pc |-> "idle", key |-> 0, path |-> "none", features |-> NoFeatures,
     out |-> NoQuantiles, error |-> "null"]
RunnerState(rev, dev, workload) ==
    [rev |-> rev, dev |-> dev, workload |-> workload,
     sessions |-> [k \in KeyIdx |-> FALSE],
     modelsAvailable |-> FALSE, runtimeConfigured |-> FALSE,
     modelLoadPromise |-> "null", modelMetaLoadPromise |-> "null",
     modelMeta |-> "null", fetch |-> "idle",
     loads |-> [c \in Callers |-> NoLoad],
     callers |-> [c \in Callers |-> NoCaller],
     loadCalls |-> 0, lastLoad |-> "none",
     pred |-> NoPredict, predicts |-> 0, realMetas |-> {}]
\* the predict calls made in a run: the user inputs encoded for them and the
\* outputs the five sessions may give
NoWorkload == [inputs |-> {}, outputs |-> {}]
RunnerIdle == RunnerState("rev2", FALSE, NoWorkload)
NoInference ==
    [outcome |-> "none", quantiles |-> NoQuantiles, thresholds |-> NoThresholds,
     cdf |-> NoCdfResult, counseling |-> NoCounseling,
     features |-> [age |-> I(0), sex |-> 0, race_eth |-> 0]]
IdleRequest ==
    [pc |-> "idle", outputs |-> NoQuantiles, features |-> [age |-> I(0), sex |-> 0, race_eth |-> 0],
     returned |-> "nothing", effects |-> <<>>]
\* effects: what handleSubmit does with the value runInference returned
\* (InputPage.tsx lines 76-79), in order
\* result, running, error: the state of the hook; frozen: a synchronous loop
\* that never ends holds the event loop; persisted: the value last handed to
\* onResult; latest, resultOf, persistedOf: which request was submitted
\* last, and which one result and persisted came from
HookState(build, modelMeta) ==
    [build |-> build, modelMeta |-> modelMeta,
     result |-> NoInference, running |-> FALSE, error |-> "null", frozen |-> FALSE,
     persisted |-> NoInference,
     reqs |-> [r \in Requests |-> IdleRequest],
     latest |-> "none", resultOf |-> "none", persistedOf |-> "none"]
HookIdle == HookState([hook |-> "calibrating", cdf |-> "tails", counsel |-> "part_012"],
                      HookNullMeta)

(***************************************************************************)
(* calibrateQuantiles as a state machine                                   *)
(***************************************************************************)
CalibCall ==
    /\ calib.pc = "idle"
    /\ \E q \in RawQuantiles, m \in Metas :
          calib' = [pc |-> "called", raw |-> q, meta |-> m, out |-> NoQuantiles]
    /\ UNCHANGED <<counsel, cdfv, hook, thr, enc, runner>>

CalibReturn ==
    /\ calib.pc = "called"
    /\ calib' = [calib EXCEPT !.pc = "returned",
                              !.out = calibrateQuantiles(calib.raw, calib.meta)]
    /\ UNCHANGED <<counsel, cdfv, hook, thr, enc, runner>>

CalibInit == calib = CalibIdle /\ counsel = CounselIdle /\ cdfv = CdfIdle /\ hook = HookIdle /\ thr = ThrIdle /\ enc = EncIdle /\ runner = RunnerIdle
CalibNext == CalibCall \/ CalibReturn
SpecCalib == CalibInit /\ [][CalibNext]_vars

(***************************************************************************)
(* generateCounseling as a state machine, in either revision               *)
(***************************************************************************)
CounselCall ==
    /\ counsel.pc = "idle"
    /\ \E q \in CounselQuantiles, t \in CounselThresholds,
          f \in CounselFeatures, sp \in SparseTables :
          counsel' = [CounselIdle EXCEPT !.pc = "called", !.quantiles = q,
                                         !.thresholds = t, !.features = f, !.sparse = sp]
    /\ UNCHANGED <<calib, cdfv, hook, thr, enc, runner>>

CounselReturn_p012 ==
    /\ counsel.pc = "called"
    /\ counsel' = [counsel EXCEPT
          !.pc = "returned", !.rev = "part_012",
          !.out = generateCounseling_p012(counsel.quantiles, counsel.thresholds,
                                          counsel.features, counsel.sparse)]
    /\ UNCHANGED <<calib, cdfv, hook, thr, enc, runner>>

CounselReturn_p011 ==
    /\ counsel.pc = "called"
    /\ counsel' = [counsel EXCEPT
          !.pc = "returned", !.rev = "part_011",
          !.out = generateCounseling_p011(counsel.quantiles, counsel.thresholds,
                                          counsel.features, counsel.sparse)]
    /\ UNCHANGED <<calib, cdfv, hook, thr, enc, runner>>

CounselInit == calib = CalibIdle /\ counsel = CounselIdle /\ cdfv = CdfIdle /\ hook = HookIdle /\ thr = ThrIdle /\ enc = EncIdle /\ runner = RunnerIdle
CounselNext == CounselCall \/ CounselReturn_p012 \/ CounselReturn_p011
SpecCounsel == CounselInit /\ [][CounselNext]_vars

(***************************************************************************)
(* buildCdf, either revision of CdfBuilder.ts, called on five quantiles.   *)
(***************************************************************************)
CdfCall ==
    /\ cdfv.pc = "idle"
    /\ \E q \in CdfInputs :
          cdfv' = [pc |-> "called", revision |-> "none", quantiles |-> q,
                   result |-> NoCdfResult]
    /\ UNCHANGED <<calib, counsel, hook, thr, enc, runner>>

CdfReturn_tails ==
    /\ cdfv.pc = "called"
    /\ cdfv' = [cdfv EXCEPT !.pc = "done", !.revision = "tails",
                            !.result = buildCdf_tails(cdfv.quantiles)]
    /\ UNCHANGED <<calib, counsel, hook, thr, enc, runner>>

CdfReturn_kernels ==
    /\ cdfv.pc = "called"
    /\ cdfv' = [cdfv EXCEPT !.pc = "done", !.revision = "kernels",
                            !.result = buildCdf_kernels(cdfv.quantiles)]
    /\ UNCHANGED <<calib, counsel, hook, thr, enc, runner>>

CdfInit == calib = CalibIdle /\ counsel = CounselIdle /\ cdfv = CdfIdle /\ hook = HookIdle /\ thr = ThrIdle /\ enc = EncIdle /\ runner = RunnerIdle
CdfNext == CdfCall \/ CdfReturn_tails \/ CdfReturn_kernels
SpecCdf == CdfInit /\ [][CdfNext]_vars

(***************************************************************************)
(* runInference (useInference.ts) and its caller handleSubmit              *)
(* (InputPage.tsx lines 54-80), with up to two calls in flight.            *)
(***************************************************************************)
\* lines 92-102: the call up to `await predict(featureArray)'
RunInference(r) ==
    /\ ~hook.frozen
    /\ hook.reqs[r].pc = "idle"
    /\ r = "second" => hook.reqs["first"].pc # "idle"
    /\ \E o \in (IF r = "first" THEN SessionOutputs ELSE LaterOutputs) :
          hook' = [hook EXCEPT
                     !.running = TRUE, !.error = "null", !.latest = r,
                     !.reqs[r] = [pc |-> "pending", outputs |-> o,
                                  features |-> HookFeatures, returned |-> "nothing",
                                  effects |-> <<>>]]
    /\ UNCHANGED <<calib, counsel, cdfv, thr, enc, runner>>

\* predict resolves: lines 103-141 and 146-147, then handleSubmit lines 76-79
PredictResolves(r) ==
    /\ ~hook.frozen
    /\ hook.reqs[r].pc = "pending"
    /\ \E inferenceResult \in {tryBlock(hook.build, hook.modelMeta,
                                         predictResult(hook.reqs[r].outputs),
                                         hook.reqs[r].features)} :
           hook' =
             IF inferenceResult.outcome = "returned"
             THEN [hook EXCEPT !.result = inferenceResult, !.resultOf = r,
                               !.running = FALSE,
                               !.persisted = inferenceResult, !.persistedOf = r,
                               !.reqs[r].pc = "done", !.reqs[r].returned = "result",
                               !.reqs[r].effects = <<"onResult", "navigate">>]
             ELSE IF inferenceResult.outcome = "threw"
             THEN [hook EXCEPT !.error = "TypeError", !.running = FALSE,
                               !.reqs[r].pc = "done", !.reqs[r].returned = "null"]
             ELSE [hook EXCEPT !.frozen = TRUE, !.reqs[r].pc = "hung"]
    /\ UNCHANGED <<calib, counsel, cdfv, thr, enc, runner>>

\* predict rejects (part_009 lines 247-253, 269): lines 142-147
PredictRejects(r) ==
    /\ ~hook.frozen
    /\ hook.reqs[r].pc = "pending"
    /\ hook' = [hook EXCEPT !.error = "Prediction model is not loaded yet.",
                            !.running = FALSE,
                            !.reqs[r].pc = "rejected", !.reqs[r].returned = "null"]
    /\ UNCHANGED <<calib, counsel, cdfv, thr, enc, runner>>

HookInit ==
    /\ calib = CalibIdle /\ counsel = CounselIdle /\ cdfv = CdfIdle /\ thr = ThrIdle /\ enc = EncIdle /\ runner = RunnerIdle
    /\ \E b \in Builds :
          \E m \in (IF b.hook = "calibrating" THEN HookMetas ELSE {HookNullMeta}) :
             hook = HookState(b, m)
HookNext ==
    \E r \in Requests : RunInference(r) \/ PredictResolves(r) \/ PredictRejects(r)
SpecHook == HookInit /\ [][HookNext]_vars

(***************************************************************************)
(* calculateThresholds(quantiles, calibration) as a state machine          *)
(***************************************************************************)
ThresholdsCall ==
    /\ thr.pc = "idle"
    /\ \E q \in KnotQuantiles, c \in Calibrations :
          thr' = [pc |-> "called", quantiles |-> q, calibration |-> c, out |-> NoThresholds]
    /\ UNCHANGED <<calib, counsel, cdfv, hook, enc, runner>>

ThresholdsReturn ==
    /\ thr.pc = "called"
    /\ thr' = [thr EXCEPT !.pc = "returned",
                          !.out = calculateThresholds_knots(thr.quantiles, thr.calibration)]
    /\ UNCHANGED <<calib, counsel, cdfv, hook, enc, runner>>

ThresholdsInit ==
    calib = CalibIdle /\ counsel = CounselIdle /\ cdfv = CdfIdle /\ hook = HookIdle
    /\ thr = ThrIdle /\ enc = EncIdle /\ runner = RunnerIdle
ThresholdsNext == ThresholdsCall \/ ThresholdsReturn
SpecThresholds == ThresholdsInit /\ [][ThresholdsNext]_vars

(***************************************************************************)
(* encodeFeatures, called on one user input.                               *)
(***************************************************************************)
EncodeCall ==
    /\ enc.pc = "idle"
    /\ \E i \in EncodeInputs : enc' = [pc |-> "called", inputs |-> i, out |-> NoFeatures]
    /\ UNCHANGED <<calib, counsel, cdfv, hook, thr, runner>>

EncodeReturn ==
    /\ enc.pc = "called"
    /\ enc' = [enc EXCEPT !.pc = "returned", !.out = encodeFeatures(enc.inputs)]
    /\ UNCHANGED <<calib, counsel, cdfv, hook, thr, runner>>

EncodeInit ==
    /\ calib = CalibIdle /\ counsel = CounselIdle /\ cdfv = CdfIdle /\ hook = HookIdle
    /\ thr = ThrIdle /\ enc = EncIdle /\ runner = RunnerIdle
EncodeNext == EncodeCall \/ EncodeReturn
SpecEncode == EncodeInit /\ [][EncodeNext]_vars

(***************************************************************************)
(* ModelRunner: loadModels, loadModelMeta, predict.  Each action is the    *)
(* code that runs between two awaits.  Settling a load resumes, in the     *)
(* same step, the loadModels calls that await it.                          *)
(***************************************************************************)
\* what the five sessions put out for one feature vector, and the user
\* inputs whose features predict is called with
RunnerOutputs ==
    {ScenarioA, ScenarioC,
     <<I(25), I(25), I(25), I(25), I(25)>>,
     <<I(45), I(36), I(28), I(20), I(15)>>,
     <<I(20), I(15), I(28), I(45), I(36)>>}
PredictInputs ==
    {[age |-> a, sex |-> x, bmi |-> b, skinTone |-> t, month |-> 1,
      hasDose |-> TRUE, dose |-> d] :
        a \in {R(405, 10), I(91)}, x \in {"female"}, b \in {I(0), R(273, 10), I(81)},
        t \in {2, 6}, d \in {I(0), I(5000)}}

SmallWorkload ==
    [inputs |-> {[age |-> R(405, 10), sex |-> "female", bmi |-> R(273, 10), skinTone |-> 6,
                  month |-> 1, hasDose |-> TRUE, dose |-> I(5000)]},
     outputs |-> {ScenarioA, <<I(45), I(36), I(28), I(20), I(15)>>}]
FullWorkload == [inputs |-> PredictInputs, outputs |-> RunnerOutputs]

\* a loadModels that never joins the load in flight
joinsNoLoad(r) == FALSE

\* part_009 line 200: if (modelLoadPromise) return modelLoadPromise
joinsLoad(r) == r.modelLoadPromise # "null"

\* the loadModels calls awaiting load l resume with its outcome
settleWaiters(callers, l, how, outcome) ==
    [c \in Callers |->
        IF callers[c].pc = "waiting" /\ callers[c].on = l
        THEN [callers[c] EXCEPT !.pc = how, !.loadOutcome = outcome]
        ELSE callers[c]]

\* the loop of lines 210-216 from key k on: the first key without a session,
\* Len(MODEL_KEYS) + 1 when every remaining key has one
nextMissingKey(sessions, k) ==
    IF \E j \in k..Len(MODEL_KEYS) : ~sessions[j]
    THEN CHOOSE j \in k..Len(MODEL_KEYS) :
            ~sessions[j] /\ \A i \in k..(j - 1) : sessions[i]
    ELSE Len(MODEL_KEYS) + 1

\* lines 210-217 and 231-233: load l goes on to create the session of the
\* next missing key, or finishes when there is none
loadProceeds(r, l, sessions, k) ==
    LET j == nextMissingKey(sessions, k)
    IN  IF j <= Len(MODEL_KEYS)
        THEN [r EXCEPT !.sessions = sessions,
                       !.loads[l].pc = "creating", !.loads[l].key = j,
                       !.loads[l].metaSettled = TRUE,
                       !.loads[l].created[j] = @ + 1]
        ELSE [r EXCEPT !.sessions = sessions,
                       !.modelsAvailable = TRUE,
                       !.modelLoadPromise = "null",
                       !.loads[l].pc = "succeeded", !.loads[l].key = 0,
                       !.loads[l].metaSettled = TRUE,
                       !.lastLoad = "succeeded",
                       !.callers = settleWaiters(r.callers, l, "resolved", "succeeded")]

\* a loadModelMeta that fetches again although metadata is already held
metaRequestedAgain(r, l) ==
    IF r.modelMetaLoadPromise # "null"
    THEN [r EXCEPT !.loads[l].awaitsMeta = "fetch"]
    ELSE [r EXCEPT !.loads[l].awaitsMeta = "fetch", !.fetch = "fetching",
                   !.modelMetaLoadPromise = "pending"]

\* lines 172-193, the part of loadModelMeta that runs in the caller's step
metaRequested(r, l) ==
    IF r.modelMeta # "null"
    THEN [r EXCEPT !.loads[l].awaitsMeta = "resolved"]
    ELSE IF r.modelMetaLoadPromise # "null"
    THEN [r EXCEPT !.loads[l].awaitsMeta = "fetch"]
    ELSE [r EXCEPT !.loads[l].awaitsMeta = "fetch", !.fetch = "fetching",
                   !.modelMetaLoadPromise = "pending"]

\* lines 185-189: the metadata attempt ends; the loads awaiting it may go on
metaSettled(r, meta) ==
    [r EXCEPT !.modelMeta = meta, !.fetch = "idle", !.modelMetaLoadPromise = "null",
              !.loads = [l \in Callers |->
                            IF r.loads[l].awaitsMeta = "fetch"
                            THEN [r.loads[l] EXCEPT !.awaitsMeta = "resolved"]
                            ELSE r.loads[l]]]

CallerMayCall(c) ==
    /\ runner.callers[c].pc # "waiting"
    /\ runner.loadCalls < MaxLoadCalls
    /\ \A d \in Callers : ~(runner.callers[d].pc = "waiting" /\ runner.callers[d].on = c)
    /\ \A k \in KeyIdx : runner.loads[c].creation[k] # "pending"

\* part_009 lines 198-206 and 236 (useModel.ts lines 10-20 around it)
LoadModels(c) ==
    /\ runner.rev = "rev2"
    /\ CallerMayCall(c)
    /\ LET called == [runner EXCEPT
                         !.loadCalls = @ + 1,
                         !.callers[c] = [NoCaller EXCEPT
                             !.availableAtCall = runner.modelsAvailable,
                             !.promiseAtCall = runner.modelLoadPromise]]
       IN  runner' =
             IF runner.modelsAvailable
             THEN [called EXCEPT !.callers[c].pc = "resolved"]
             ELSE IF joinsLoad(runner)
             THEN [called EXCEPT !.callers[c].pc = "waiting",
                                 !.callers[c].on = runner.modelLoadPromise]
             ELSE metaRequested(
                    [called EXCEPT !.callers[c].pc = "waiting", !.callers[c].on = c,
                                   !.runtimeConfigured = TRUE,
                                   !.modelLoadPromise = c,
                                   !.lastLoad = "none",
                                   !.loads[c] = [NoLoad EXCEPT !.pc = "awaitMeta"]], c)
    /\ UNCHANGED <<calib, counsel, cdfv, hook, thr, enc>>

\* lines 181-182 and 185-189: fetch resolves or rejects
MetaFetchResponds ==
    /\ runner.fetch = "fetching"
    /\ \/ runner' = [runner EXCEPT !.fetch = "parsing"]
       \/ runner' = metaSettled(runner, runner.modelMeta)
    /\ UNCHANGED <<calib, counsel, cdfv, hook, thr, enc>>

\* lines 183-189: resp.json() resolves with the metadata served, or rejects
MetaParsed ==
    /\ runner.fetch = "parsing"
    /\ \/ \E m \in MetaVersions : runner' = metaSettled(runner, m)
       \/ runner' = metaSettled(runner, runner.modelMeta)
    /\ UNCHANGED <<calib, counsel, cdfv, hook, thr, enc>>

\* a load that goes on to create the sessions without awaiting loadModelMeta
LoadContinuesEarly(l) ==
    /\ runner.loads[l].pc = "awaitMeta"
    /\ runner' = loadProceeds(runner, l, runner.sessions, 1)
    /\ UNCHANGED <<calib, counsel, cdfv, hook, thr, enc>>

\* lines 206-217: after await loadModelMeta
LoadContinues(l) ==
    /\ runner.loads[l].pc = "awaitMeta"
    /\ runner.loads[l].awaitsMeta = "resolved"
    /\ runner' = loadProceeds(runner, l, runner.sessions, 1)
    /\ UNCHANGED <<calib, counsel, cdfv, hook, thr, enc>>

\* lines 213-217: InferenceSession.create resolves
CreateSucceeds(l) ==
    /\ runner.rev = "rev2"
    /\ runner.loads[l].pc = "creating"
    /\ runner' = loadProceeds(runner, l,
                              [runner.sessions EXCEPT ![runner.loads[l].key] = TRUE],
                              runner.loads[l].key + 1)
    /\ UNCHANGED <<calib, counsel, cdfv, hook, thr, enc>>

\* lines 218-233: InferenceSession.create rejects
CreateFails(l) ==
    /\ runner.rev = "rev2"
    /\ runner.loads[l].pc = "creating"
    /\ runner' = [runner EXCEPT
          !.modelsAvailable = FALSE,
          !.sessions = [k \in KeyIdx |-> FALSE],
          !.modelLoadPromise = "null",
          !.loads[l].pc = "failed",
          !.lastLoad = "failed",
          !.callers = settleWaiters(runner.callers, l,
                                    IF runner.dev THEN "resolved" ELSE "rejected",
                                    "failed")]
    /\ UNCHANGED <<calib, counsel, cdfv, hook, thr, enc>>

\* first revision, part_009 lines 19-31: five creations started at once
\* ("Call once at startup": a call is made when no other is in flight)
LoadModels_rev1(c) ==
    /\ runner.rev = "rev1"
    /\ CallerMayCall(c)
    /\ \A d \in Callers : runner.callers[d].pc # "waiting"
    /\ \A d \in Callers, k \in KeyIdx : runner.loads[d].creation[k] # "pending"
    /\ runner' = [runner EXCEPT
          !.loadCalls = @ + 1,
          !.lastLoad = "none",
          !.callers[c] = [NoCaller EXCEPT
                             !.pc = "waiting", !.on = c,
                             !.availableAtCall = runner.modelsAvailable],
          !.loads[c] = [NoLoad EXCEPT
                           !.pc = "creating",
                           !.created = [k \in KeyIdx |-> 1],
                           !.creation = [k \in KeyIdx |-> "pending"]]]
    /\ UNCHANGED <<calib, counsel, cdfv, hook, thr, enc>>

\* first revision, lines 26-32: one creation resolves; Promise.all resolves
\* with the last of them
CreateSucceeds_rev1(l, k) ==
    /\ runner.rev = "rev1"
    /\ runner.loads[l].creation[k] = "pending"
    /\ LET created == [runner EXCEPT !.sessions[k] = TRUE, !.loads[l].creation[k] = "ok"]
       IN  runner' =
             IF /\ runner.loads[l].pc = "creating"
                /\ \A j \in KeyIdx : created.loads[l].creation[j] = "ok"
             THEN [created EXCEPT
                      !.modelsAvailable = TRUE,
                      !.loads[l].pc = "succeeded",
                      !.loads[l].creation = NoLoad.creation,
                      !.lastLoad = "succeeded",
                      !.callers = settleWaiters(runner.callers, l, "resolved", "succeeded")]
             ELSE IF \A j \in KeyIdx : created.loads[l].creation[j] # "pending"
             THEN [created EXCEPT !.loads[l].creation = NoLoad.creation]
             ELSE created
    /\ UNCHANGED <<calib, counsel, cdfv, hook, thr, enc>>

\* first revision, lines 33-36: one creation rejects; Promise.all rejects
\* with the first of them
CreateFails_rev1(l, k) ==
    /\ runner.rev = "rev1"
    /\ runner.loads[l].creation[k] = "pending"
    /\ LET rejected == [runner EXCEPT !.loads[l].creation[k] = "failed"]
           failed == IF \A j \in KeyIdx : rejected.loads[l].creation[j] # "pending"
                     THEN [rejected EXCEPT !.loads[l].creation = NoLoad.creation]
                     ELSE rejected
       IN  runner' =
             IF runner.loads[l].pc = "creating"
             THEN [failed EXCEPT
                      !.modelsAvailable = FALSE,
                      !.loads[l].pc = "failed",
                      !.lastLoad = "failed",
                      !.callers = settleWaiters(runner.callers, l, "resolved", "failed")]
             ELSE failed
    /\ UNCHANGED <<calib, counsel, cdfv, hook, thr, enc>>

\* lines 247-253 (line 51 in the first revision): may predict use the
\* sessions; "mock" and "throw" when it may not
ensureModelsLoadedForPredict(r) ==
    IF r.modelsAvailable THEN "real"
    ELSE IF r.rev = "rev1" \/ r.dev THEN "mock"
    ELSE "throw"

\* predict reads sessions[key] (line 268) and awaits its run, or throws
predictAtKey(r, k) ==
    IF r.sessions[k]
    THEN [r EXCEPT !.pred.pc = "running", !.pred.key = k]
    ELSE [r EXCEPT !.pred.pc = "threw", !.pred.key = k,
                   !.pred.error = "Model not loaded"]

\* part_009 lines 259-270 (50-61)
PredictCall ==
    /\ runner.pred.pc # "running"
    /\ runner.predicts < MaxPredicts
    /\ \E i \in runner.workload.inputs :
          LET features == encodeFeatures(i)
              called == [runner EXCEPT
                            !.predicts = @ + 1,
                            !.pred = [NoPredict EXCEPT !.features = features]]
              how == ensureModelsLoadedForPredict(runner)
          IN  runner' =
                IF how = "mock"
                THEN [called EXCEPT !.pred.pc = "returned", !.pred.path = "mock",
                                    !.pred.out = mockPredict(featuresToArray(features))]
                ELSE IF how = "throw"
                THEN [called EXCEPT !.pred.pc = "threw",
                                    !.pred.error = "Prediction model is not loaded yet."]
                ELSE predictAtKey([called EXCEPT !.pred.path = "real"], 1)
    /\ UNCHANGED <<calib, counsel, cdfv, hook, thr, enc>>

\* lines 272-292 (63-82): session.run resolves; after the last one the
\* monotonic loop runs and predict returns; the caller reads getModelMeta()
\* in the same step (useInference.ts lines 102-103)
PredictRunResolves ==
    /\ runner.pred.pc = "running"
    /\ IF runner.pred.key < Len(MODEL_KEYS)
       THEN runner' = predictAtKey(runner, runner.pred.key + 1)
       ELSE \E o \in runner.workload.outputs :
               runner' = [runner EXCEPT
                             !.pred.pc = "returned", !.pred.out = predictResult(o),
                             !.realMetas = @ \cup {runner.modelMeta}]
    /\ UNCHANGED <<calib, counsel, cdfv, hook, thr, enc>>

RunnerInit ==
    /\ calib = CalibIdle /\ counsel = CounselIdle /\ cdfv = CdfIdle /\ hook = HookIdle
    /\ thr = ThrIdle /\ enc = EncIdle
    /\ \E rev \in {"rev1", "rev2"}, dev \in BOOLEAN :
          runner = RunnerState(rev, dev, SmallWorkload)
RunnerNext ==
    \/ \E c \in Callers : LoadModels(c) \/ LoadModels_rev1(c)
    \/ MetaFetchResponds
    \/ MetaParsed
    \/ \E l \in Callers : LoadContinues(l) \/ CreateSucceeds(l) \/ CreateFails(l)
    \/ \E l \in Callers, k \in KeyIdx : CreateSucceeds_rev1(l, k) \/ CreateFails_rev1(l, k)
    \/ PredictCall
    \/ PredictRunResolves
SpecRunner == RunnerInit /\ [][RunnerNext]_vars

(***************************************************************************)
(* predict on its own, with the full set of inputs and session outputs,    *)
(* started either before any load or after one successful loadModels call. *)
(***************************************************************************)
\* the runner after one loadModels call whose load succeeded
LoadedRunner(rev, dev, meta, workload) ==
    [RunnerState(rev, dev, workload) EXCEPT
        !.sessions = [k \in KeyIdx |-> TRUE],
        !.modelsAvailable = TRUE,
        !.runtimeConfigured = (rev = "rev2"),
        !.modelMeta = meta,
        !.loadCalls = 1,
        !.lastLoad = "succeeded",
        !.loads["c1"] = [NoLoad EXCEPT
                            !.pc = "succeeded",
                            !.awaitsMeta = IF rev = "rev2" THEN "resolved" ELSE "none",
                            !.metaSettled = (rev = "rev2"),
                            !.created = [k \in KeyIdx |-> 1]],
        !.callers["c1"] = [NoCaller EXCEPT
                              !.pc = "resolved", !.on = "c1",
                              !.loadOutcome = "succeeded"]]

PredictInit ==
    /\ calib = CalibIdle /\ counsel = CounselIdle /\ cdfv = CdfIdle /\ hook = HookIdle
    /\ thr = ThrIdle /\ enc = EncIdle
    /\ \E rev \in {"rev1", "rev2"}, dev \in BOOLEAN :
          \/ runner = RunnerState(rev, dev, FullWorkload)
          \/ \E meta \in (IF rev = "rev2" THEN {"null", "metaA"} ELSE {"null"}) :
                runner = LoadedRunner(rev, dev, meta, FullWorkload)
PredictNext == PredictCall \/ PredictRunResolves
SpecPredict == PredictInit /\ [][PredictNext]_vars

(***************************************************************************)
(* Properties of generateCounseling (SpecCounsel)                          *)
(***************************************************************************)
CounselWidth == Sub(Q95(counsel.quantiles), Q05(counsel.quantiles))
CounselWide == Gt(CounselWidth, WIDE_INTERVAL_THRESHOLD)
CounselP20 == counsel.thresholds.pBelow20

\* C1: whenever q95 - q05 > 35, generateCounseling returns zone "uncertain"
\* and wideIntervalWarning = TRUE, whatever pBelow20 is.  Stated over every
\* revision of generateCounseling in the repository.
C1_WideIntervalFirst ==
    (counsel.pc = "returned" /\ CounselWide)
        => (counsel.out.zone = "uncertain" /\ counsel.out.wideIntervalWarning)

\* C2: when the interval is not wide (q95 - q05 <= 35), the zone is "low"
\* exactly when pBelow20 < 0.10, "high" exactly when pBelow20 > 0.50 and
\* "uncertain" exactly when 0.10 <= pBelow20 <= 0.50; one of the three zones
\* is always returned.
C2_ZoneByProbability ==
    counsel.pc = "returned" =>
        /\ counsel.out.zone \in {"low", "high", "uncertain"}
        /\ ~CounselWide =>
              /\ counsel.out.zone = "low" <=> CounselP20.n * 10 < CounselP20.d
              /\ counsel.out.zone = "high" <=> CounselP20.n * 2 > CounselP20.d
              /\ counsel.out.zone = "uncertain" <=>
                    (CounselP20.n * 10 >= CounselP20.d /\ CounselP20.n * 2 <= CounselP20.d)

\* a width of exactly 35 with pBelow20 exactly 0.10 was classified "uncertain",
\* and so was pBelow20 exactly 0.50
C2_Witness ==
    /\ counsel.pc = "returned"
    /\ counsel.rev = "part_012"
    /\ CounselWidth = I(35)
    /\ CounselP20 \in {R(1, 10), R(1, 2)}
    /\ counsel.out.zone = "uncertain"
    /\ ~counsel.out.wideIntervalWarning

(***************************************************************************)
(* Properties of calibrateQuantiles (SpecCalib)                            *)
(***************************************************************************)
NonDecreasing(q) == \A i \in 1..(Len(q) - 1) : Leq(q[i], q[i + 1])
Crossed(q) == \E i \in 1..(Len(q) - 1) : Lt(q[i + 1], q[i])
CalibRepaired == enforceMonotonicQuantiles(calib.raw)

\* the conditions of the three calibration paths, as the claim states them
ConformalPathApplies ==
    /\ ~calib.meta.isNull
    /\ calib.meta.conformal.has
    /\ calib.meta.conformal.lower.d > 0 /\ calib.meta.conformal.lower.n >= 0
    /\ calib.meta.conformal.upper.d > 0 /\ calib.meta.conformal.upper.n >= 0
CoverageUndershoots(pi90) ==
    /\ pi90.has
    /\ pi90.coverage.n > 0
    /\ pi90.target.n > 0
    /\ Gt(Sub(pi90.target, pi90.coverage), R(5, 1000))
CoveragePathApplies ==
    /\ ~calib.meta.isNull
    /\ ~ConformalPathApplies
    /\ CoverageUndershoots(calib.meta.coverage)

\* C3: for every five finite raw quantiles and every metadata value the
\* result of calibrateQuantiles satisfies q05 <= q25 <= q50 <= q75 <= q95.
C3_CalibratedMonotone ==
    calib.pc = "returned" => NonDecreasing(calib.out)

\* a crossed input went through the coverage scaling and came out ordered
C3_Witness ==
    /\ calib.pc = "returned"
    /\ Crossed(calib.raw)
    /\ CoveragePathApplies
    /\ NonDecreasing(calib.out)
    /\ calib.out # CalibRepaired

\* C4: the calibrated q05 is not above, the calibrated q95 not below, those
\* of the monotone-repaired raw quantiles, so the calibrated width q95 - q05
\* is at least the repaired width.
C4_NeverShrinks ==
    calib.pc = "returned" =>
        /\ Leq(Q05(calib.out), Q05(CalibRepaired))
        /\ Geq(Q95(calib.out), Q95(CalibRepaired))
        /\ Geq(Sub(Q95(calib.out), Q05(calib.out)),
               Sub(Q95(CalibRepaired), Q05(CalibRepaired)))

\* the coverage scaling widened an interval strictly on both sides
C4_Witness ==
    /\ calib.pc = "returned"
    /\ CoveragePathApplies
    /\ Lt(Q05(calib.out), Q05(CalibRepaired))
    /\ Gt(Q95(calib.out), Q95(CalibRepaired))

\* the greatest of the first i values of q
RunningMax(q, i) ==
    CHOOSE v \in {q[j] : j \in 1..i} : \A j \in 1..i : Leq(q[j], v)
RunningMaxima(q) == [i \in 1..Len(q) |-> RunningMax(q, i)]

\* C5: the repair replaces each quantile by the maximum of itself and all
\* lower-order quantiles and is the unconditional first step of
\* calibrateQuantiles: without usable metadata the result is exactly the
\* running maxima of the raw input (q05 unchanged, no value lowered, an
\* ordered input unchanged), and with metadata the result is that of
\* calibrating the running maxima.
C5_RepairIsRunningMaximum ==
    calib.pc = "returned" =>
        /\ (~ConformalPathApplies /\ ~CoveragePathApplies) =>
              /\ calib.out = RunningMaxima(calib.raw)
              /\ Q05(calib.out) = Q05(calib.raw)
              /\ \A i \in 1..5 : Geq(calib.out[i], calib.raw[i])
              /\ NonDecreasing(calib.raw) => calib.out = calib.raw
        /\ calib.out = calibrateQuantiles(RunningMaxima(calib.raw), calib.meta)

\* {30, 20, 28, 36, 45} without metadata became {30, 30, 30, 36, 45}
C5_Witness ==
    /\ calib.pc = "returned"
    /\ calib.raw = ScenarioC
    /\ calib.meta.isNull
    /\ calib.out = <<I(30), I(30), I(30), I(36), I(45)>>

CdfReturnedResult == cdfv.pc = "done" /\ cdfv.result.outcome = "returned"
CdfInputOrdered == \A i \in 1..4 : Leq(cdfv.quantiles[i], cdfv.quantiles[i + 1])
CdfInputStrict == \A i \in 1..4 : Lt(cdfv.quantiles[i], cdfv.quantiles[i + 1])
CdfInputFinite == \A i \in 1..5 : IsFinite(cdfv.quantiles[i])

C7_CdfMonotone ==
    (CdfReturnedResult /\ CdfInputOrdered /\ CdfInputFinite) =>
        \A i \in 1..(Len(cdfv.result.cdfPoints) - 1) :
            /\ Lt(cdfv.result.cdfPoints[i].x, cdfv.result.cdfPoints[i + 1].x)
            /\ Leq(cdfv.result.cdfPoints[i].y, cdfv.result.cdfPoints[i + 1].y)

\* the integrated kernel density of an ordered input rose from 0 to 1 over
\* more than a hundred samples
C7_Witness ==
    /\ CdfReturnedResult
    /\ CdfInputOrdered
    /\ cdfv.revision = "kernels"
    /\ Len(cdfv.result.cdfPoints) > 100
    /\ cdfv.result.cdfPoints[1].y = I(0)
    /\ cdfv.result.cdfPoints[Len(cdfv.result.cdfPoints)].y = I(1)

\* the level of the quantile whose value is the threshold t, given there is one
LevelAt(t) == QUANTILE_LEVELS[CHOOSE i \in 1..5 : cdfv.quantiles[i] = t]
ThresholdIsKnot(t) == \E i \in 1..5 : cdfv.quantiles[i] = t

\* C8: for strictly increasing quantiles, a clinical threshold that is one
\* of the quantile values gets that quantile's level as its probability; for
\* {15, 20, 28, 36, 45} pBelow20 = 0.25.
C8_PassesThroughKnots ==
    (CdfReturnedResult /\ CdfInputStrict) =>
        /\ ThresholdIsKnot(SEVERE_DEFICIENCY) =>
              cdfv.result.pBelow12 = LevelAt(SEVERE_DEFICIENCY)
        /\ ThresholdIsKnot(DEFICIENCY) =>
              cdfv.result.pBelow20 = LevelAt(DEFICIENCY)
        /\ ThresholdIsKnot(INSUFFICIENCY) =>
              cdfv.result.pBelow30 = LevelAt(INSUFFICIENCY)
        /\ cdfv.quantiles = ScenarioA => cdfv.result.pBelow20 = R(25, 100)

\* C9: exactly one path is taken, in this priority: a usable conformal
\* adjustment gives the conformal widening whatever interval_coverage says;
\* otherwise coverage > 0, target > 0 and target - coverage > 0.005 give the
\* coverage scaling; otherwise the repaired quantiles are returned unchanged.
C9_PathPriority ==
    calib.pc = "returned" =>
        /\ ConformalPathApplies =>
              /\ calib.out = conformalWiden(CalibRepaired, calib.meta.conformal)
              /\ calib.out = calibrateQuantiles(calib.raw,
                                 [calib.meta EXCEPT !.coverage = NoCoverage])
        /\ CoveragePathApplies =>
              calib.out = scaleIntervalAroundMedian(CalibRepaired,
                                                    tailScaleOf(calib.meta.coverage))
        /\ (~ConformalPathApplies /\ ~CoveragePathApplies) =>
              calib.out = CalibRepaired

\* metadata carried a usable conformal adjustment and an undershooting
\* coverage; the result is the conformal one and not the coverage-scaled one
C9_Witness ==
    /\ calib.pc = "returned"
    /\ ConformalPathApplies
    /\ CoverageUndershoots(calib.meta.coverage)
    /\ calib.out = conformalWiden(CalibRepaired, calib.meta.conformal)
    /\ calib.out # scaleIntervalAroundMedian(CalibRepaired,
                                             tailScaleOf(calib.meta.coverage))

\* C10: with a usable conformal adjustment (lower, upper) the result is
\* q05 = m.q05 - lower, q25 = m.q25 - 0.35*lower, q50 = m.q50,
\* q75 = m.q75 + 0.35*upper, q95 = m.q95 + upper, m the repaired input.
C10_ConformalWidening ==
    (calib.pc = "returned" /\ ConformalPathApplies) =>
        LET m == CalibRepaired
            lower == calib.meta.conformal.lower
            upper == calib.meta.conformal.upper
        IN  /\ Q05(calib.out) = Sub(Q05(m), lower)
            /\ Q25(calib.out) = Sub(Q25(m), R(35 * lower.n, 100 * lower.d))
            /\ Q50(calib.out) = Q50(m)
            /\ Q75(calib.out) = Add(Q75(m), R(35 * upper.n, 100 * upper.d))
            /\ Q95(calib.out) = Add(Q95(m), upper)

\* {15, 25, 25, 35, 35} widened by lower = 2, upper = 3
C10_Witness ==
    /\ calib.pc = "returned"
    /\ calib.raw = <<I(15), I(25), I(25), I(35), I(35)>>
    /\ calib.meta.conformal = [has |-> TRUE, lower |-> I(2), upper |-> I(3)]
    /\ calib.out = <<I(13), R(243, 10), I(25), R(3605, 100), I(38)>>

\* the tail factor as the formula min(1.35, max(1, 1 + gap / coverage))
StatedTailScale(pi90) ==
    MathMin(R(135, 100),
            MathMax(I(1), Add(I(1), Div(Sub(pi90.target, pi90.coverage), pi90.coverage))))

\* C11: on the coverage fallback path the tail factor is
\* scale = min(1.35, max(1, 1 + (target - coverage) / coverage)), it lies in
\* [1, 1.35] for every coverage and target, q05 and q95 become
\* q50 - (q50 - q05) * scale and q50 + (q95 - q50) * scale, and q25 and q75
\* are scaled around q50 by 1 + (scale - 1) / 2.
C11_CoverageScaling ==
    calib.pc = "returned" =>
        /\ calib.meta.coverage.has =>
              /\ Leq(I(1), tailScaleOf(calib.meta.coverage))
              /\ Leq(tailScaleOf(calib.meta.coverage), R(135, 100))
        /\ CoveragePathApplies =>
              LET m == CalibRepaired
                  scale == StatedTailScale(calib.meta.coverage)
                  middle == Add(I(1), Div(Sub(scale, I(1)), I(2)))
              IN  /\ scale = tailScaleOf(calib.meta.coverage)
                  /\ Q05(calib.out) = Sub(Q50(m), Mul(Sub(Q50(m), Q05(m)), scale))
                  /\ Q25(calib.out) = Sub(Q50(m), Mul(Sub(Q50(m), Q25(m)), middle))
                  /\ Q50(calib.out) = Q50(m)
                  /\ Q75(calib.out) = Add(Q50(m), Mul(Sub(Q75(m), Q50(m)), middle))
                  /\ Q95(calib.out) = Add(Q50(m), Mul(Sub(Q95(m), Q50(m)), scale))

\* {15, 15, 25, 35, 35} with coverage 0.8 against target 0.9: scale 1.125
C11_Witness ==
    /\ calib.pc = "returned"
    /\ CoveragePathApplies
    /\ calib.raw = <<I(15), I(15), I(25), I(35), I(35)>>
    /\ calib.meta.coverage = [has |-> TRUE, coverage |-> R(8, 10), target |-> R(9, 10)]
    /\ tailScaleOf(calib.meta.coverage) = R(1125, 1000)
    /\ calib.out = <<R(1375, 100), R(14375, 1000), I(25), R(35625, 1000), R(3625, 100)>>

\* the quantiles predict handed to the pipeline for request r
RawOf(r) == predictResult(hook.reqs[r].outputs)
AllFinite(q) == \A i \in 1..5 : IsFinite(q[i])
PipelineRan(r) == hook.reqs[r].pc \in {"done", "hung"}

\* C12: when one of the five raw quantiles is NaN or an infinity, runInference
\* signals an error to its caller and hands back no result; when all five
\* are finite (crossed, all equal, no metadata) it signals no error.
C12_NonFiniteFailsLoudly ==
    \A r \in Requests :
        PipelineRan(r) =>
            /\ ~AllFinite(RawOf(r)) =>
                  hook.reqs[r].pc = "done" /\ hook.reqs[r].returned = "null"
            /\ AllFinite(RawOf(r)) =>
                  hook.reqs[r].pc = "done" /\ hook.reqs[r].returned = "result"

CdfInputDegenerate == \E i \in 1..4 : cdfv.quantiles[i] = cdfv.quantiles[i + 1]
IsProbability(p) == IsFinite(p) /\ Leq(I(0), p) /\ Leq(p, I(1))
PointsFinite(points) == \A i \in 1..Len(points) : IsFinite(points[i].x) /\ IsFinite(points[i].y)
\* some quantile value lies between the x of samples i and i + 1
KnotWithin(points, i) ==
    \E k \in 1..5 : Leq(points[i].x, cdfv.quantiles[k]) /\ Leq(cdfv.quantiles[k], points[i + 1].x)

\* C13: when adjacent quantiles are equal (all five equal included), buildCdf
\* divides by zero nowhere (every number it returns is finite), its three
\* threshold probabilities are numbers in [0, 1], and the sampled CDF rises
\* strictly across every quantile value.
C13_DegenerateTotal ==
    (cdfv.pc = "done" /\ CdfInputOrdered /\ CdfInputFinite /\ CdfInputDegenerate) =>
        /\ cdfv.result.outcome = "returned"
        /\ IsProbability(cdfv.result.pBelow12)
        /\ IsProbability(cdfv.result.pBelow20)
        /\ IsProbability(cdfv.result.pBelow30)
        /\ PointsFinite(cdfv.result.cdfPoints)
        /\ PointsFinite(cdfv.result.densityPoints)
        /\ \A i \in 1..(Len(cdfv.result.cdfPoints) - 1) :
              KnotWithin(cdfv.result.cdfPoints, i) =>
                  Lt(cdfv.result.cdfPoints[i].y, cdfv.result.cdfPoints[i + 1].y)

\* all five quantiles 25: probabilities returned, pBelow20 < pBelow30
C13_Witness ==
    /\ cdfv.pc = "done"
    /\ cdfv.quantiles = <<I(25), I(25), I(25), I(25), I(25)>>
    /\ cdfv.result.outcome = "returned"
    /\ Len(cdfv.result.cdfPoints) > 20
    /\ IsProbability(cdfv.result.pBelow20)
    /\ Lt(cdfv.result.pBelow20, cdfv.result.pBelow30)

\* the trapezoidal integral of points lo..hi
RECURSIVE AreaUnder(_, _, _)
AreaUnder(points, lo, hi) ==
    IF hi <= lo THEN I(0)
    ELSE IF hi = lo + 1
    THEN Mul(Div(Add(points[hi].y, points[lo].y), I(2)), Sub(points[hi].x, points[lo].x))
    ELSE Add(AreaUnder(points, lo, (lo + hi) \div 2),
             AreaUnder(points, (lo + hi) \div 2, hi))
DensityArea == AreaUnder(cdfv.result.densityPoints, 1, Len(cdfv.result.densityPoints))

\* C14: for non-decreasing finite quantiles (a q05 near 0 included) the
\* trapezoidal integral of the returned densityPoints is within 0.01 of 1.
C14_DensityNormalized ==
    (CdfReturnedResult /\ CdfInputOrdered /\ CdfInputFinite) =>
        /\ Leq(R(99, 100), DensityArea)
        /\ Leq(DensityArea, R(101, 100))

\* the probability the claim gives knot i: the actual clamped to [0, 1] when
\* the table has one, the nominal level otherwise
StatedKnotProbability(i) ==
    IF thr.calibration.has /\ thr.calibration.rows[i].has
    THEN (IF Lt(thr.calibration.rows[i].actual, I(0)) THEN I(0)
          ELSE IF Gt(thr.calibration.rows[i].actual, I(1)) THEN I(1)
          ELSE thr.calibration.rows[i].actual)
    ELSE QUANTILE_LEVELS[i]
ThrKnotsStrict ==
    \A i \in 1..4 : /\ Lt(thr.quantiles[i], thr.quantiles[i + 1])
                    /\ Lt(StatedKnotProbability(i), StatedKnotProbability(i + 1))
ThrLevelAt(t) == StatedKnotProbability(CHOOSE i \in 1..5 : thr.quantiles[i] = t)
ThrIsKnot(t) == \E i \in 1..5 : thr.quantiles[i] = t

CalibratedOf(r) == calibrateQuantiles(RawOf(r), hook.modelMeta)
ResultStored == hook.resultOf \in Requests

C17_ThresholdsSelected ==
    ResultStored =>
        /\ hook.result.thresholds.pBelow12 = hook.result.cdf.pBelow12
        /\ hook.result.thresholds.pBelow20 = hook.result.cdf.pBelow20
        /\ hook.result.thresholds.pBelow30 = hook.result.cdf.pBelow30
        /\ hook.result.counseling.zone = "low"
              => Lt(hook.result.cdf.pBelow20, LOW_RISK_CEILING)
        /\ hook.result.counseling.zone = "high"
              => Gt(hook.result.cdf.pBelow20, HIGH_RISK_FLOOR)
        /\ (/\ hook.result.counseling.zone = "uncertain"
            /\ ~hook.result.counseling.wideIntervalWarning)
              => /\ ~Lt(hook.result.cdf.pBelow20, LOW_RISK_CEILING)
                 /\ ~Gt(hook.result.cdf.pBelow20, HIGH_RISK_FLOOR)

\* a result whose three probabilities differ and whose zone is 'high' on a
\* pBelow20 above one half, with pBelow12 below one half
C17_Witness ==
    /\ ResultStored
    /\ hook.result.counseling.zone = "high"
    /\ Lt(hook.result.cdf.pBelow12, HIGH_RISK_FLOOR)
    /\ Gt(hook.result.cdf.pBelow20, HIGH_RISK_FLOOR)
    /\ Lt(hook.result.cdf.pBelow20, hook.result.cdf.pBelow30)
    /\ hook.result.thresholds.pBelow20 = hook.result.cdf.pBelow20

WideHeadlines ==
    {"Uncertain Estimate - Consider Testing",
     "Uncertain Estimate - Low-Dose Supplementation Is Reasonable"}
ModerateHeadlines ==
    {"Moderate Risk - Testing May Help", "Moderate Risk - Supplementation May Help"}

\* C18: a returned counseling with wideIntervalWarning set carries the
\* wide-interval 'uncertain' headline and description; an 'uncertain' one
\* without the warning carries the moderate-probability headline and the
\* probability description; a 'low' or 'high' message never comes with the
\* warning set.
C18_MessageFollowsWideFlag ==
    counsel.pc = "returned" =>
        /\ counsel.out.wideIntervalWarning =>
              /\ counsel.out.zone = "uncertain"
              /\ counsel.out.headline \in WideHeadlines
              /\ counsel.out.description = wideDescription(counsel.quantiles)
        /\ (counsel.out.zone = "uncertain" /\ ~counsel.out.wideIntervalWarning) =>
              /\ counsel.out.headline \in ModerateHeadlines
              /\ counsel.out.description
                    = riskDescription("about", counsel.thresholds, counsel.quantiles)
        /\ counsel.out.zone \in {"low", "high"} => ~counsel.out.wideIntervalWarning

\* the age decade of a whole-number age, floor(age/10)*10
AgeDecade(features) == (features.age.n \div 10) * 10
SparseEntryPresent ==
    /\ counsel.sparse.has
    /\ \E k \in 1..Len(counsel.sparse.rows) :
          /\ counsel.sparse.rows[k].race_eth = counsel.features.race_eth
          /\ counsel.sparse.rows[k].sex = counsel.features.sex
          /\ counsel.sparse.rows[k].age_decade = AgeDecade(counsel.features)
CounselingWithoutTable ==
    generateCounselingOf([counsel |-> counsel.rev], counsel.quantiles,
                         counsel.thresholds, counsel.features, NoSparseTable)

\* C19: sparseDataWarning is true exactly when the table holds an entry with
\* the features' race_eth and sex and with age_decade = floor(age/10)*10,
\* false for an absent or empty table, and the zone, the message and
\* wideIntervalWarning are what they are without any table.
C19_SparseDataWarning ==
    counsel.pc = "returned" =>
        /\ counsel.out.sparseDataWarning <=> SparseEntryPresent
        /\ (~counsel.sparse.has \/ counsel.sparse.rows = <<>>)
              => ~counsel.out.sparseDataWarning
        /\ counsel.out
              = [CounselingWithoutTable EXCEPT
                    !.sparseDataWarning = counsel.out.sparseDataWarning]

\* age 59 matched by the second row of a two-row table (decade 50), in a
\* low-risk result
C19_Witness ==
    /\ counsel.pc = "returned"
    /\ counsel.features.age = I(59)
    /\ Len(counsel.sparse.rows) = 2
    /\ counsel.out.sparseDataWarning
    /\ counsel.out.zone = "low"
    /\ ~counsel.out.wideIntervalWarning

BothCompleted ==
    \A r \in Requests : hook.reqs[r].pc \in {"done", "rejected"}

\* C20: once both requests have completed and the later one ("second",
\* submitted while or after the first was in flight) returned a result, the
\* hook's result and the value handed to onResult last are those of the
\* most recently submitted request, whichever predict resolved first.
C20_StaleDiscarded ==
    (/\ BothCompleted
     /\ hook.latest = "second"
     /\ hook.reqs["second"].returned = "result")
        => /\ hook.resultOf = hook.latest
           /\ hook.persistedOf = hook.latest
           /\ hook.result.quantiles = CalibratedOf(hook.latest)
           /\ hook.persisted = hook.result

(***************************************************************************)
(* Properties of the ModelRunner (SpecRunner)                              *)
(***************************************************************************)
\* C21: once the metadata is held (getModelMeta() returns a non-null value)
\* no step of loadModels, loadModelMeta or predict changes it: every later
\* getModelMeta() returns that same value.
C21_MetaLoadedOnce ==
    [][runner.modelMeta # "null" => runner'.modelMeta = runner.modelMeta]_vars

\* metadata loaded by a first load that failed on a session, a second load
\* that succeeded, and a predict on the real models afterwards
C21_Witness ==
    /\ runner.modelMeta = "metaA"
    /\ runner.loadCalls = 2
    /\ runner.loads["c1"].pc = "failed"
    /\ runner.loads["c2"].pc = "succeeded"
    /\ runner.pred.pc = "returned"
    /\ runner.pred.path = "real"

(***************************************************************************)
(* Properties of encodeFeatures (SpecEncode)                               *)
(***************************************************************************)
\* C22: whatever the user input (age or BMI out of range, unknown skin
\* tone, month outside 1-12, negative or missing dose), the encoded
\* features have age in [18,90], sex in {0,1}, bmi in [10,80], race_eth in
\* 0..4, exam_season in {1,2}, being 1 exactly for months 11, 12, 1, 2, 3, 4,
\* and supplement_cat in 0..4.
C22_FeaturesInRange ==
    enc.pc = "returned" =>
        /\ Leq(I(18), enc.out.age) /\ Leq(enc.out.age, I(90))
        /\ enc.out.sex \in {0, 1}
        /\ Leq(I(10), enc.out.bmi) /\ Leq(enc.out.bmi, I(80))
        /\ enc.out.race_eth \in 0..4
        /\ enc.out.exam_season \in {1, 2}
        /\ enc.out.exam_season = 1 <=> enc.inputs.month \in {11, 12, 1, 2, 3, 4}
        /\ enc.out.supplement_cat \in 0..4

\* age 91, BMI 0, skin tone 0, month 0 and a dose of -100 IU
C22_Witness ==
    /\ enc.pc = "returned"
    /\ enc.inputs.age = I(91) /\ enc.out.age = I(90)
    /\ enc.inputs.bmi = I(0) /\ enc.out.bmi = I(10)
    /\ enc.inputs.skinTone = 0 /\ enc.out.race_eth = 4
    /\ enc.inputs.month = 0 /\ enc.out.exam_season = 2
    /\ enc.inputs.hasDose /\ enc.inputs.dose = I(-100) /\ enc.out.supplement_cat = 0

LoadInFlight(l) == runner.loads[l].pc \in {"awaitMeta", "creating"}

\* C23: in the runner with the load promise (second revision), at most one
\* load is in flight; a loadModels call made while a load is in flight
\* waits for that load and starts none; a call made when the models are
\* available returns at once, joining and starting no load; and within one
\* load every session is created at most once.
C23_LoadModelsIdempotent ==
    runner.rev = "rev2" =>
        /\ Cardinality({l \in Callers : LoadInFlight(l)}) <= 1
        /\ \A c \in Callers :
              /\ (runner.callers[c].promiseAtCall # "null"
                     /\ ~runner.callers[c].availableAtCall)
                    => /\ runner.callers[c].on = runner.callers[c].promiseAtCall
                       /\ runner.callers[c].on # c
              /\ runner.callers[c].availableAtCall
                    => /\ runner.callers[c].pc = "resolved"
                       /\ runner.callers[c].on = "none"
                       /\ ~LoadInFlight(c)
        /\ \A l \in Callers, k \in KeyIdx : runner.loads[l].created[k] <= 1

\* the second call was made while the first call's load was in flight and
\* resumed when that load had created the five sessions
C23_Witness ==
    /\ runner.rev = "rev2"
    /\ runner.callers["c2"].promiseAtCall = "c1"
    /\ runner.callers["c2"].pc = "resolved"
    /\ runner.callers["c2"].loadOutcome = "succeeded"
    /\ runner.loads["c2"].pc = "none"
    /\ \A k \in KeyIdx : runner.sessions[k] /\ runner.loads["c1"].created[k] = 1

\* C24: whatever predict returns is non-decreasing, on the real models
\* (either revision, whatever the five sessions put out) and on the mock
\* path, for the features of every encoded input.
C24_PredictMonotone ==
    runner.pred.pc = "returned" => NonDecreasing(runner.pred.out)

\* the sessions put out {45, 36, 28, 20, 15}; predict returns five times 45
C24_Witness ==
    /\ runner.pred.pc = "returned"
    /\ runner.pred.path = "real"
    /\ runner.pred.out = <<I(45), I(45), I(45), I(45), I(45)>>

\* the category whose label range contains a dose, as the claim states it
StatedCategory(dose) ==
    IF Leq(dose, I(0)) THEN 0
    ELSE IF Lt(dose, I(400)) THEN 1
    ELSE IF Lt(dose, I(1000)) THEN 2
    ELSE IF Lt(dose, I(2000)) THEN 3
    ELSE 4
EncDose == IF enc.inputs.hasDose THEN enc.inputs.dose ELSE I(0)

\* C25: the supplement category is the one whose label range contains the
\* dose: 0 for no dose, 1 for a dose above 0 and below 400, 2 for 400-999,
\* 3 for 1000-1999, 4 for 2000 and above; so the form's 400, 1000 and 2000 IU
\* give 2, 3 and 4.
C25_DoseCategory ==
    enc.pc = "returned" => enc.out.supplement_cat = StatedCategory(EncDose)

(***************************************************************************)
(* Properties of the useInference hook's flags (SpecHook)                  *)
(***************************************************************************)
Starts(r) == hook.reqs[r].pc = "idle" /\ hook'.reqs[r].pc = "pending"
ReturnsNull(r) == hook.reqs[r].returned = "nothing" /\ hook'.reqs[r].returned = "null"
ReturnsResult(r) == hook.reqs[r].returned = "nothing" /\ hook'.reqs[r].returned = "result"

\* what a run leaves behind when a stage throws, and what handleSubmit does
\* with the value returned
ErrorHandlingStep ==
    \A r \in Requests :
        /\ Starts(r) => hook'.error = "null"
        /\ ReturnsNull(r) =>
              /\ hook'.error # "null"
              /\ hook'.result = hook.result
              /\ hook'.persisted = hook.persisted
              /\ ~hook'.running
              /\ hook'.reqs[r].effects = <<>>
        /\ ReturnsResult(r) =>
              /\ ~hook'.running
              /\ hook'.reqs[r].effects = <<"onResult", "navigate">>
NullAfterSuccessStep ==
    \A r \in Requests : ReturnsResult(r) => hook'.error = "null"

\* C26: a run whose stage throws resolves to null with error set to the
\* message, the stored result and the value given to onResult untouched and
\* running false; error is cleared when a run starts and is null after a
\* run that succeeded; handleSubmit calls onResult, then navigates, only for
\* a non-null result.
C26_ErrorHandling ==
    [][ErrorHandlingStep /\ NullAfterSuccessStep]_vars

CallInFlight(r) == hook.reqs[r].pc \in {"pending", "hung"}

\* C27: running is true exactly while at least one runInference call has
\* started and not completed, two overlapping calls included, and false
\* when no call is in flight.
C27_RunningWhileInFlight ==
    hook.running <=> \E r \in Requests : CallInFlight(r)

AllSessionsLoaded == \A k \in KeyIdx : runner.sessions[k]
NoSessionLoaded == \A k \in KeyIdx : ~runner.sessions[k]
RunnerStateInvariant ==
    /\ runner.modelsAvailable => AllSessionsLoaded
    /\ runner.pred.error # "Model not loaded"
    /\ runner.lastLoad = "failed" => (~runner.modelsAvailable /\ NoSessionLoaded)
    /\ ~runner.dev =>
          \A c \in Callers :
              runner.callers[c].loadOutcome = "failed" => runner.callers[c].pc = "rejected"
PredictAfterFailedLoad ==
    (/\ runner'.predicts = runner.predicts + 1
     /\ runner.lastLoad = "failed"
     /\ ~runner.dev)
        => (runner'.pred.pc = "threw" /\ runner'.pred.path # "mock")

\* C28: areModelsLoaded() implies that the five sessions are loaded, and
\* predict never finds a session missing; after a failed load
\* areModelsLoaded() is false and the five sessions are null, and outside
\* dev mode the loadModels calls awaiting that load reject and predict
\* throws, returning no mock prediction.
C28_RunnerStateInvariant ==
    []RunnerStateInvariant /\ [][PredictAfterFailedLoad]_vars

MetaAttemptOver == runner.fetch = "idle" /\ runner.modelMetaLoadPromise = "null"
MetaSettledFirst ==
    /\ runner.modelsAvailable => MetaAttemptOver
    /\ Cardinality(runner.realMetas) <= 1
\* the first revision holds no metadata; in the second the models, once
\* available, stay available
MetaKeptWhileAvailable ==
    /\ runner.modelsAvailable => runner'.modelMeta = runner.modelMeta
    /\ (runner.rev = "rev2" /\ runner.modelsAvailable) => runner'.modelsAvailable
    /\ runner.rev = "rev1" => runner'.modelMeta = "null"

\* C29: areModelsLoaded() is true only when the metadata attempt of the
\* load has ended; from then on the models stay available and
\* getModelMeta() keeps its value, so every inference run on the real
\* models reads the same metadata.
C29_MetaSettledBeforeAvailable ==
    []MetaSettledFirst /\ [][MetaKeptWhileAvailable]_vars
C29_Witness ==
    /\ runner.rev = "rev2"
    /\ runner.modelsAvailable
    /\ runner.loadCalls = 2
    /\ runner.predicts = 2
    /\ runner.pred.pc = "returned"
    /\ runner.pred.path = "real"
    /\ runner.realMetas = {runner.modelMeta}

\* the object handed to the second enforceMonotonicQuantiles: lines 70-76
\* on the conformal path, lines 39-45 on the coverage path, and the repaired
\* input itself on the paths that return it
BeforeReEnforcement ==
    LET m == CalibRepaired
        lower == calib.meta.conformal.lower
        upper == calib.meta.conformal.upper
        scale == tailScaleOf(calib.meta.coverage)
        middle == Add(I(1), Mul(Sub(scale, I(1)), MIDDLE_SCALE_FRACTION))
    IN  IF ConformalPathApplies
        THEN << Sub(Q05(m), lower), Sub(Q25(m), Mul(lower, CONFORMAL_MIDDLE_SHARE)),
                Q50(m),
                Add(Q75(m), Mul(upper, CONFORMAL_MIDDLE_SHARE)), Add(Q95(m), upper) >>
        ELSE IF CoveragePathApplies
        THEN << Sub(Q50(m), Mul(Sub(Q50(m), Q05(m)), scale)),
                Sub(Q50(m), Mul(Sub(Q50(m), Q25(m)), middle)),
                Q50(m),
                Add(Q50(m), Mul(Sub(Q75(m), Q50(m)), middle)),
                Add(Q50(m), Mul(Sub(Q95(m), Q50(m)), scale)) >>
        ELSE m

\* C30: on every path of calibrateQuantiles the returned q50 is the q50 of
\* the repaired input, and the values handed to the second
\* enforceMonotonicQuantiles are already ordered, so that it returns them
\* unchanged.
C30_MedianUnchanged ==
    calib.pc = "returned" =>
        /\ Q50(calib.out) = Q50(CalibRepaired)
        /\ NonDecreasing(BeforeReEnforcement)
        /\ calib.out = BeforeReEnforcement
\* the crossed input {30, 20, 28, 36, 45} is repaired to a median of 30 and
\* then widened or scaled; the median stays 30 and the tails move
C30_Witness ==
    /\ calib.pc = "returned"
    /\ calib.raw = ScenarioC
    /\ ConformalPathApplies \/ CoveragePathApplies
    /\ Q50(calib.out) = I(30)
    /\ Q50(calib.raw) # Q50(calib.out)
    /\ calib.out # CalibRepaired

====
